---- MODULE Spec2Model ----
(***************************************************************************)
(* Model of the MFT attribute decoder of src/437.py (libmft attribute      *)
(* module): the DataRuns run-list decoder, the attribute header decoders   *)
(* and the variable-length content decoders.  Buffers are sequences of     *)
(* bytes (0..255); Python slicing, struct unpacking and int.from_bytes are *)
(* modelled by what they do on such sequences.                             *)
(***************************************************************************)
EXTENDS Integers, Sequences, FiniteSets, TLC

VARIABLES
    heap,        \* the list objects that DataRuns instances reference, by reference
    th,          \* per caller: the frame of its DataRuns/NonResidentAttrHeader decode
    returned,    \* the objects handed back to callers so far
    ncalls,      \* number of decode calls started so far
    decoder,     \* content decoder under way ("none" when the run-list decoders are exercised)
    binary_stream, \* its input buffer
    pc,          \* its position: "start", "loop", "returned", "raised"
    offset,      \* its running offset
    entries,     \* the entry list it has built so far
    result       \* its outcome: the record it returned or the exception it raised

vars == <<heap, th, returned, ncalls, decoder, binary_stream, pc, offset, entries, result>>
drvars == <<heap, th, returned, ncalls>>
cdvars == <<decoder, binary_stream, pc, offset, entries, result>>

(***************************************************************************)
(* Bounds of the model.                                                    *)
(***************************************************************************)
MaxLen == 3          \* longest run-list buffer handed to DataRuns
MaxCalls == 2        \* decode calls per behaviour
MaxEntries == 3      \* most entries in an input list

\* The input lists hold at most MaxEntries entries: a list loop that ends has
\* ended after MaxEntries + 1 passes, and only a loop without end is cut.
MaxPasses == MaxEntries + 1

(***************************************************************************)
(* Python primitives.                                                      *)
(***************************************************************************)
Min(a, b) == IF a < b THEN a ELSE b

\* None and a present value (an int and None cannot share a TLA+ type).
None == <<>>
Some(x) == <<x>>

\* s[a:b] for 0 <= a, 0 <= b: a slice is silently cut at the end of s.
Slice(s, a, b) == SubSeq(s, Min(a, Len(s)) + 1, Min(b, Len(s)))

\* s[a:]
SliceFrom(s, a) == SubSeq(s, Min(a, Len(s)) + 1, Len(s))

RECURSIVE Pow256(_)
Pow256(n) == IF n = 0 THEN 1 ELSE 256 * Pow256(n - 1)

\* int.from_bytes(b, "little", signed=False); 0 for the empty sequence.
RECURSIVE FromBytesLE(_)
FromBytesLE(b) == IF b = <<>> THEN 0 ELSE b[1] + 256 * FromBytesLE(Tail(b))

\* int.from_bytes(b, "little", signed=True)
FromBytesLESigned(b) ==
    IF b = <<>> THEN 0
    ELSE IF b[Len(b)] >= 128 THEN FromBytesLE(b) - Pow256(Len(b))
    ELSE FromBytesLE(b)

\* int.from_bytes(b, byteorder="big")
RECURSIVE FromBytesBE(_)
FromBytesBE(b) ==
    IF b = <<>> THEN 0 ELSE b[Len(b)] + 256 * FromBytesBE(SubSeq(b, 1, Len(b) - 1))

\* All byte sequences over alphabet A of length 0..n.
RECURSIVE SeqsUpTo(_, _)
SeqsUpTo(A, n) ==
    IF n = 0 THEN {<<>>}
    ELSE LET S == SeqsUpTo(A, n - 1)
         IN S \cup {Append(s, a) : s \in {x \in S : Len(x) = n - 1}, a \in A}

(***************************************************************************)
(* DataRuns (src/437.py 246-327).                                          *)
(***************************************************************************)
\* The list object created once, when "def __init__(self, data_runs=[])" is
\* evaluated; every call that omits the argument receives this same object.
DefaultList == 0

header_size == 1

\* DataRuns.__init__: the object keeps a reference to the list it is given.
DataRuns__init__(data_runs) == [data_runs |-> data_runs]

\* cls() in create_from_binary: no argument, so the default applies.
NewDataRuns == DataRuns__init__(DefaultList)

\* One pass of the loop body that leaves the read offset where it was.
DataRunAt_NoAdvance(binary_view, off, previous_dr_offset) ==
    LET header == binary_view[off + 1]
        length_len == header % 16
        length_offset == header \div 16
        temp_len == off + header_size + length_len
        dr_length == FromBytesLE(Slice(binary_view, off + header_size, temp_len))
        dr_rel == FromBytesLESigned(Slice(binary_view, temp_len, temp_len + length_offset))
    IN  [run |-> <<dr_length,
                   IF length_offset # 0 THEN Some(dr_rel + previous_dr_offset) ELSE None>>,
         previous_dr_offset |->
             IF length_offset # 0 THEN dr_rel + previous_dr_offset ELSE previous_dr_offset,
         offset |-> off]

\* One pass of the loop body in which a sparse run sets the accumulator back
\* to 0.
DataRunAt_SparseResets(binary_view, off, previous_dr_offset) ==
    LET header == binary_view[off + 1]
        length_len == header % 16
        length_offset == header \div 16
        temp_len == off + header_size + length_len
        dr_length == FromBytesLE(Slice(binary_view, off + header_size, temp_len))
        dr_rel == FromBytesLESigned(Slice(binary_view, temp_len, temp_len + length_offset))
    IN  [run |-> <<dr_length,
                   IF length_offset # 0 THEN Some(dr_rel + previous_dr_offset) ELSE None>>,
         previous_dr_offset |->
             IF length_offset # 0 THEN dr_rel + previous_dr_offset ELSE 0,
         offset |-> off + header_size + length_len + length_offset]

\* One pass of the loop body (lines 294-306) at `offset`: the run to append
\* and the updated locals.
DataRunAt(binary_view, off, previous_dr_offset) ==
    LET header == binary_view[off + 1]
        length_len == header % 16
        length_offset == header \div 16
        temp_len == off + header_size + length_len
        dr_length == FromBytesLE(Slice(binary_view, off + header_size, temp_len))
        dr_rel == FromBytesLESigned(Slice(binary_view, temp_len, temp_len + length_offset))
    IN  [run |-> <<dr_length,
                   IF length_offset # 0 THEN Some(dr_rel + previous_dr_offset) ELSE None>>,
         previous_dr_offset |->
             IF length_offset # 0 THEN dr_rel + previous_dr_offset ELSE previous_dr_offset,
         offset |-> off + header_size + length_len + length_offset]


\* The runs a buffer encodes, as the run-list format defines them (spec 4.2):
\* header byte h, then h & 0x0F bytes of unsigned length, then h >> 4 bytes
\* of signed offset relative to the previous absolute offset; a header byte
\* of 0 ends the list.  Defined for buffers whose fields all lie inside the
\* buffer (WellFormedRunList).
RECURSIVE EncodedRunsFrom(_, _, _)
EncodedRunsFrom(buf, pos, prev) ==
    IF pos > Len(buf) \/ buf[pos] = 0 THEN <<>>
    ELSE LET h == buf[pos]
             ll == h % 16
             lo == h \div 16
             len == FromBytesLE(SubSeq(buf, pos + 1, Min(pos + ll, Len(buf))))
             rel == FromBytesLESigned(SubSeq(buf, Min(pos + ll, Len(buf)) + 1,
                                             Min(pos + ll + lo, Len(buf))))
         IN  <<(<<len, IF lo = 0 THEN None ELSE Some(prev + rel)>>)>>
             \o EncodedRunsFrom(buf, pos + 1 + ll + lo, IF lo = 0 THEN prev ELSE prev + rel)

EncodedRuns(buf) == EncodedRunsFrom(buf, 1, 0)

\* Every run's fields lie inside the buffer and a 0 header byte ends the list.
RECURSIVE WellFormedFrom(_, _)
WellFormedFrom(buf, pos) ==
    /\ pos <= Len(buf)
    /\ \/ buf[pos] = 0
       \/ /\ pos + (buf[pos] % 16) + (buf[pos] \div 16) <= Len(buf)
          /\ WellFormedFrom(buf, pos + 1 + (buf[pos] % 16) + (buf[pos] \div 16))

WellFormedRunList(buf) == WellFormedFrom(buf, 1)

\* Some run header declares a field that extends past the end of the buffer.
RECURSIVE OverrunFrom(_, _)
OverrunFrom(buf, pos) ==
    /\ pos <= Len(buf)
    /\ buf[pos] # 0
    /\ \/ pos + (buf[pos] % 16) + (buf[pos] \div 16) > Len(buf)
       \/ OverrunFrom(buf, pos + 1 + (buf[pos] % 16) + (buf[pos] \div 16))

FieldOverrun(buf) == OverrunFrom(buf, 1)

(***************************************************************************)
(* Outcomes of a decode: the value returned or the exception raised.       *)
(***************************************************************************)
Ok(v) == [exc |-> "none", val |-> v]
Raise(e) == [exc |-> e, val |-> <<>>]

\* struct.Struct(fmt).unpack(b): the buffer must have exactly the struct's size.
UnpackFits(b, size) == Len(b) = size

\* bytes.decode("utf_16_le"), strict: a sequence of code points, or
\* UnicodeDecodeError for an odd length or an unpaired surrogate.
RECURSIVE Utf16Units(_)
Utf16Units(b) ==
    IF Len(b) < 2 THEN <<>> ELSE <<b[1] + 256 * b[2]>> \o Utf16Units(SubSeq(b, 3, Len(b)))

IsHighSurrogate(u) == u >= 55296 /\ u <= 56319
IsLowSurrogate(u) == u >= 56320 /\ u <= 57343

RECURSIVE Utf16Points(_)
Utf16Points(u) ==
    IF u = <<>> THEN Ok(<<>>)
    ELSE IF IsLowSurrogate(u[1]) THEN Raise("UnicodeDecodeError")
    ELSE IF IsHighSurrogate(u[1])
         THEN IF Len(u) >= 2 /\ IsLowSurrogate(u[2])
              THEN LET r == Utf16Points(SubSeq(u, 3, Len(u)))
                   IN  IF r.exc # "none" THEN r
                       ELSE Ok(<<65536 + (u[1] - 55296) * 1024 + (u[2] - 56320)>> \o r.val)
              ELSE Raise("UnicodeDecodeError")
    ELSE LET r == Utf16Points(Tail(u))
         IN  IF r.exc # "none" THEN r ELSE Ok(<<u[1]>> \o r.val)

DecodeUtf16le(b) ==
    IF Len(b) % 2 = 1 THEN Raise("UnicodeDecodeError") ELSE Utf16Points(Utf16Units(b))

\* A name read that would decode the slice even when name_len is 0.
AttrName_AlwaysDecoded(binary_view, name_len, name_offset) ==
    LET r == DecodeUtf16le(Slice(binary_view, name_offset, name_offset + 2 * name_len))
    IN  IF r.exc # "none" THEN r ELSE Ok(Some(r.val))

\* The name read of the header decoders and of the list entries:
\*   binary_view[name_offset:name_offset+(2*name_len)].tobytes().decode("utf_16_le")
\* or None when name_len is 0.
AttrName(binary_view, name_len, name_offset) ==
    IF name_len # 0
    THEN LET r == DecodeUtf16le(Slice(binary_view, name_offset, name_offset + 2 * name_len))
         IN  IF r.exc # "none" THEN r ELSE Ok(Some(r.val))
    ELSE Ok(None)

\* The closed set of attribute type codes (enumeration AttrTypes).
AttrTypeCodes == {16, 32, 48, 64, 80, 96, 112, 128, 144, 160, 176, 192, 208, 224, 256}

\* AttrTypes(attr_type): the enumeration member, ValueError for an unknown code.
AttrTypes(attr_type) ==
    IF attr_type \in AttrTypeCodes THEN Ok(attr_type) ELSE Raise("ValueError")


\* AttrFlags(flags): the flag enumeration wraps the 16-bit value.
AttrFlags(flags) == flags

(***************************************************************************)
(* NonResidentAttrHeader (src/437.py 504-603).                             *)
(***************************************************************************)
NonResidentReprSize == 64

\* Lines 576-587: unpack "<2I2B3H2Q2H4x3Q" from binary_view[:64], read the
\* name, build the object with data_runs = None.
NonResidentHeaderFields(binary_view) ==
    LET b == Slice(binary_view, 0, NonResidentReprSize)
    IN  IF ~UnpackFits(b, NonResidentReprSize) THEN Raise("struct.error")
        ELSE LET attr_type == FromBytesLE(SubSeq(b, 1, 4))
                 name_len == b[10]
                 name_offset == FromBytesLE(SubSeq(b, 11, 12))
                 name == AttrName(binary_view, name_len, name_offset)
                 ty == AttrTypes(attr_type)
             IN  IF name.exc # "none" THEN name
                 ELSE IF ty.exc # "none" THEN ty
                 ELSE Ok([attr_type_id |-> ty.val,
                          attr_len |-> FromBytesLE(SubSeq(b, 5, 8)),
                          non_resident |-> b[9] # 0,
                          flags |-> AttrFlags(FromBytesLE(SubSeq(b, 13, 14))),
                          attr_id |-> FromBytesLE(SubSeq(b, 15, 16)),
                          attr_name |-> name.val,
                          start_vcn |-> FromBytesLE(SubSeq(b, 17, 24)),
                          end_vcn |-> FromBytesLE(SubSeq(b, 25, 32)),
                          rl_offset |-> FromBytesLE(SubSeq(b, 33, 34)),
                          compress_usize |-> FromBytesLE(SubSeq(b, 35, 36)),
                          alloc_sstream |-> FromBytesLE(SubSeq(b, 41, 48)),
                          curr_sstream |-> FromBytesLE(SubSeq(b, 49, 56)),
                          init_sstream |-> FromBytesLE(SubSeq(b, 57, 64)),
                          data_runs |-> None])

(***************************************************************************)
(* Callers of the run-list decoders.  A frame holds the locals of          *)
(* DataRuns.create_from_binary; hdr is the NonResidentAttrHeader under     *)
(* construction when the decode was entered through line 590.              *)
(***************************************************************************)
Callers == {1, 2}

IdleFrame ==
    [pc |-> "idle", arg |-> <<>>, via |-> "none", binary_view |-> <<>>, offset |-> 0,
     previous_dr_offset |-> 0, nw_obj |-> None, hdr |-> None, ret |-> None,
     error |-> "none", id |-> 0, load_dataruns |-> FALSE]

NotRunning(t) == th[t].pc \in {"idle", "returned", "raised"}

\* The run sequence an object handed to a caller holds now: None for a
\* header decoded without its run list.
HeldRuns(o) ==
    IF o.kind = "DataRuns" THEN Some(heap[o.obj.data_runs])
    ELSE IF o.obj.data_runs = None THEN None
    ELSE Some(heap[o.obj.data_runs[1].data_runs])

\* DataRuns.create_from_binary(binary_view), lines 288-291: the new object and
\* the loop's locals.
DataRunsCall(t, b) ==
    /\ NotRunning(t)
    /\ ncalls < MaxCalls
    /\ ncalls' = ncalls + 1
    /\ th' = [th EXCEPT ![t] =
                [IdleFrame EXCEPT !.pc = "loop", !.arg = b, !.via = "DataRuns",
                                  !.binary_view = b, !.nw_obj = Some(NewDataRuns),
                                  !.id = ncalls + 1]]
    /\ UNCHANGED <<heap, returned>>
    /\ UNCHANGED cdvars

\* The run list read right after the fixed header, whatever rl_offset says.
RunListView_AfterHeader(binary_view, rl_offset) == SliceFrom(binary_view, NonResidentReprSize)

\* binary_view[nw_obj.rl_offset:], line 590.
RunListView(binary_view, rl_offset) == SliceFrom(binary_view, rl_offset)

\* NonResidentAttrHeader.create_from_binary(load_dataruns, binary_view), lines
\* 576-590: the header fields, then (line 590) the DataRuns decode of
\* binary_view[rl_offset:], or the header as it is when load_dataruns is false.
NonResidentCall(t, load_dataruns, b) ==
    /\ NotRunning(t)
    /\ ncalls < MaxCalls
    /\ ncalls' = ncalls + 1
    /\ LET h == NonResidentHeaderFields(b)
           f == [IdleFrame EXCEPT !.arg = b, !.via = "NonResidentAttrHeader",
                                  !.id = ncalls + 1, !.load_dataruns = load_dataruns]
       IN  IF h.exc # "none"
           THEN /\ th' = [th EXCEPT ![t] = [f EXCEPT !.pc = "raised", !.error = h.exc]]
                /\ UNCHANGED returned
           ELSE IF load_dataruns
           THEN /\ th' = [th EXCEPT ![t] =
                            [f EXCEPT !.pc = "loop", !.hdr = Some(h.val),
                                      !.binary_view = RunListView(b, h.val.rl_offset),
                                      !.nw_obj = Some(NewDataRuns)]]
                /\ UNCHANGED returned
           ELSE LET o == [id |-> ncalls + 1, kind |-> "NonResidentAttrHeader",
                          obj |-> h.val]
                IN  /\ th' = [th EXCEPT ![t] =
                                [f EXCEPT !.pc = "returned", !.hdr = Some(h.val),
                                          !.ret = Some(o)]]
                    /\ returned' = returned \cup {o}
    /\ UNCHANGED heap
    /\ UNCHANGED cdvars

\* One evaluation of the loop test of line 293 and, when it passes, of the
\* body (lines 294-306); when the test finds the 0 terminator, the return of
\* line 311 (and of line 590-593 for a header).
DataRunsStep(t) ==
    /\ th[t].pc = "loop"
    /\ LET f == th[t]
           ref == f.nw_obj[1].data_runs
       IN  IF f.offset >= Len(f.binary_view)
           THEN \* binary_view[offset] is out of range
                /\ th' = [th EXCEPT ![t] = [f EXCEPT !.pc = "raised", !.error = "IndexError"]]
                /\ UNCHANGED <<heap, returned>>
           ELSE IF f.binary_view[f.offset + 1] # 0
           THEN LET r == DataRunAt(f.binary_view, f.offset, f.previous_dr_offset)
                IN  /\ heap' = [heap EXCEPT ![ref] = Append(@, r.run)]
                    /\ th' = [th EXCEPT ![t] =
                                [f EXCEPT !.offset = r.offset,
                                          !.previous_dr_offset = r.previous_dr_offset]]
                    /\ UNCHANGED returned
           ELSE LET o == IF f.hdr = None
                         THEN [id |-> f.id, kind |-> "DataRuns", obj |-> f.nw_obj[1]]
                         ELSE [id |-> f.id, kind |-> "NonResidentAttrHeader",
                               obj |-> [f.hdr[1] EXCEPT !.data_runs = f.nw_obj]]
                IN  /\ th' = [th EXCEPT ![t] = [f EXCEPT !.pc = "returned", !.ret = Some(o)]]
                    /\ returned' = returned \cup {o}
                    /\ UNCHANGED heap
    /\ UNCHANGED ncalls
    /\ UNCHANGED cdvars


(***************************************************************************)
(* ResidentAttrHeader (src/437.py 420-502).                                *)
(***************************************************************************)
ResidentReprSize == 24

\* Lines 482-493: unpack "<2I2B3HIHBx" from binary_view[:24], read the name.
ResidentAttrHeader_create_from_binary(binary_view) ==
    LET b == Slice(binary_view, 0, ResidentReprSize)
    IN  IF ~UnpackFits(b, ResidentReprSize) THEN Raise("struct.error")
        ELSE LET name == AttrName(binary_view, b[10], FromBytesLE(SubSeq(b, 11, 12)))
                 ty == AttrTypes(FromBytesLE(SubSeq(b, 1, 4)))
             IN  IF name.exc # "none" THEN name
                 ELSE IF ty.exc # "none" THEN ty
                 ELSE Ok([attr_type_id |-> ty.val,
                          attr_len |-> FromBytesLE(SubSeq(b, 5, 8)),
                          non_resident |-> b[9] # 0,
                          flags |-> AttrFlags(FromBytesLE(SubSeq(b, 13, 14))),
                          attr_id |-> FromBytesLE(SubSeq(b, 15, 16)),
                          attr_name |-> name.val,
                          content_len |-> FromBytesLE(SubSeq(b, 17, 20)),
                          content_offset |-> FromBytesLE(SubSeq(b, 21, 22)),
                          indexed_flag |-> b[23]])

(***************************************************************************)
(* Content decoders (src/437.py 672-2307).                                 *)
(***************************************************************************)
\* get_file_reference(f_tag), on the 8 little-endian bytes of f_tag: the low
\* 48 bits (the first six bytes) and the high 16 bits (the last two).
get_file_reference(f_tag) ==
    <<FromBytesLE(SubSeq(f_tag, 1, 6)), FromBytesLE(SubSeq(f_tag, 7, 8))>>

\* convert_filetime(t): 100 ns ticks since 1601-01-01 as microseconds since then.
convert_filetime(t) == t \div 10

AttrListEntryReprSize == 26

\* _from_binary_attrlist_e, lines 855-865: unpack "<IH2B2QH" from
\* binary_stream[:26], the name at name_off from the entry's start.
AttributeListEntry_create_from_binary(bs) ==
    LET b == Slice(bs, 0, AttrListEntryReprSize)
    IN  IF ~UnpackFits(b, AttrListEntryReprSize) THEN Raise("struct.error")
        ELSE LET name == AttrName(bs, b[7], b[8])
                 ty == AttrTypes(FromBytesLE(SubSeq(b, 1, 4)))
                 ref == get_file_reference(SubSeq(b, 17, 24))
             IN  IF name.exc # "none" THEN name
                 ELSE IF ty.exc # "none" THEN ty
                 ELSE Ok([attr_type |-> ty.val,
                          entry_len |-> FromBytesLE(SubSeq(b, 5, 6)),
                          name_offset |-> b[8],
                          start_vcn |-> FromBytesLE(SubSeq(b, 9, 16)),
                          file_ref |-> ref[1],
                          file_seq |-> ref[2],
                          attr_id |-> FromBytesLE(SubSeq(b, 25, 26)),
                          name |-> name.val])

\* The name types of a FILE_NAME (enumeration NameType).
NameTypeCodes == {0, 1, 2, 3}

FileNameReprSize == 66

\* _from_binary_filename, lines 1121-1133: unpack "<7Q2I2B" from
\* binary_stream[:66]; the name is the rest of the buffer.
FileName_create_from_binary(bs) ==
    LET b == Slice(bs, 0, FileNameReprSize)
    IN  IF ~UnpackFits(b, FileNameReprSize) THEN Raise("struct.error")
        ELSE LET name == DecodeUtf16le(SliceFrom(bs, FileNameReprSize))
                 ref == get_file_reference(SubSeq(b, 1, 8))
             IN  IF name.exc # "none" THEN name
                 ELSE IF b[66] \notin NameTypeCodes THEN Raise("ValueError")
                 ELSE Ok([parent_ref |-> ref[1], parent_seq |-> ref[2],
                          timestamps |->
                              <<convert_filetime(FromBytesLE(SubSeq(b, 9, 16))),
                                convert_filetime(FromBytesLE(SubSeq(b, 17, 24))),
                                convert_filetime(FromBytesLE(SubSeq(b, 25, 32))),
                                convert_filetime(FromBytesLE(SubSeq(b, 33, 40)))>>,
                          allocated_size |-> FromBytesLE(SubSeq(b, 41, 48)),
                          real_size |-> FromBytesLE(SubSeq(b, 49, 56)),
                          flags |-> FromBytesLE(SubSeq(b, 57, 60)),
                          reparse_value |-> FromBytesLE(SubSeq(b, 61, 64)),
                          name_type |-> b[66],
                          name |-> name.val])

\* IndexEntryFlags: bit 0 CHILD_NODE_EXISTS, bit 1 LAST_ENTRY.
CHILD_NODE_EXISTS == 1
LAST_ENTRY == 2

\* flags & bit, for a single-bit mask.
HasFlag(flags, bit) == (flags \div bit) % 2 = 1

FILE_NAME == 48

IndexEntryReprSize == 16

\* _from_binary_idx_e, lines 1287-1306: unpack "<Q2HI" from binary_stream[:16],
\* the content (a FileName when the index is over FILE_NAME, raw bytes
\* otherwise), the child VCN after the padding when the flag is set.
IndexEntry_create_from_binary(bs, content_type) ==
    LET b == Slice(bs, 0, IndexEntryReprSize)
    IN  IF ~UnpackFits(b, IndexEntryReprSize) THEN Raise("struct.error")
        ELSE LET entry_len == FromBytesLE(SubSeq(b, 9, 10))
                 cont_len == FromBytesLE(SubSeq(b, 11, 12))
                 flags == FromBytesLE(SubSeq(b, 13, 16))
                 raw == Slice(bs, IndexEntryReprSize, IndexEntryReprSize + cont_len)
                 binary_content ==
                     IF content_type = Some(FILE_NAME) /\ cont_len # 0
                     THEN FileName_create_from_binary(raw)
                     ELSE Ok(raw)
                 temp_size == IndexEntryReprSize + cont_len
                 boundary_fix == (entry_len - temp_size) % 8
                 vcn == Slice(bs, temp_size + boundary_fix, temp_size + boundary_fix + 8)
             IN  IF binary_content.exc # "none" THEN binary_content
                 ELSE IF HasFlag(flags, CHILD_NODE_EXISTS) /\ ~UnpackFits(vcn, 8)
                 THEN Raise("struct.error")
                 ELSE Ok([generic |-> FromBytesLE(SubSeq(b, 1, 8)),
                          entry_len |-> entry_len,
                          content_len |-> cont_len,
                          flags |-> flags,
                          content |-> binary_content.val,
                          vcn_child_node |->
                              IF HasFlag(flags, CHILD_NODE_EXISTS)
                              THEN Some(FromBytesLE(vcn)) ELSE Some(None)])

IndexNodeHeaderReprSize == 16

\* _from_binary_idx_nh, line 1232: unpack "<4I" from binary_stream[:16].
IndexNodeHeader_create_from_binary(bs) ==
    LET b == Slice(bs, 0, IndexNodeHeaderReprSize)
    IN  IF ~UnpackFits(b, IndexNodeHeaderReprSize) THEN Raise("struct.error")
        ELSE Ok([start_offset |-> FromBytesLE(SubSeq(b, 1, 4)),
                 end_offset |-> FromBytesLE(SubSeq(b, 5, 8)),
                 end_alloc_offset |-> FromBytesLE(SubSeq(b, 9, 12)),
                 flags |-> FromBytesLE(SubSeq(b, 13, 16))])

\* bytes.decode("ascii"), strict.
DecodeAscii(b) ==
    IF \E i \in 1..Len(b) : b[i] >= 128 THEN Raise("UnicodeDecodeError") ELSE Ok(b)

EaEntryReprSize == 8

\* _from_binary_ea_entry, lines 1736-1748: unpack "<I2BH" from binary_stream[:8],
\* the name after it, the value at the next multiple of 8.
EaEntry_create_from_binary(bs) ==
    LET b == Slice(bs, 0, EaEntryReprSize)
    IN  IF ~UnpackFits(b, EaEntryReprSize) THEN Raise("struct.error")
        ELSE LET name_len == b[6]
                 value_len == FromBytesLE(SubSeq(b, 7, 8))
                 name == DecodeAscii(Slice(bs, EaEntryReprSize, EaEntryReprSize + name_len))
                 value_alignment == ((EaEntryReprSize + name_len + 7) \div 8) * 8
             IN  IF name.exc # "none" THEN name
                 ELSE Ok([offset_next_ea |-> FromBytesLE(SubSeq(b, 1, 4)),
                          flags |-> b[5],
                          name |-> name.val,
                          value |-> Slice(bs, value_alignment, value_alignment + value_len)])

\* n little-endian 32-bit values from b.
RECURSIVE Unpack32s(_)
Unpack32s(b) ==
    IF Len(b) < 4 THEN <<>>
    ELSE <<FromBytesLE(SubSeq(b, 1, 4))>> \o Unpack32s(SubSeq(b, 5, Len(b)))

SIDReprSize == 8

\* _from_binary_sid, lines 1965-1976: unpack "<2B6s" from binary_stream[:8],
\* then sub_auth_len 32-bit values.
SID_create_from_binary(bs) ==
    LET b == Slice(bs, 0, SIDReprSize)
    IN  IF ~UnpackFits(b, SIDReprSize) THEN Raise("struct.error")
        ELSE LET sub_auth_len == b[2]
                 sub == Slice(bs, SIDReprSize, SIDReprSize + 4 * sub_auth_len)
             IN  IF sub_auth_len # 0 /\ ~UnpackFits(sub, 4 * sub_auth_len)
                 THEN Raise("struct.error")
                 ELSE Ok([revision_number |-> b[1],
                          authority |-> FromBytesBE(SubSeq(b, 3, 8)),
                          sub_authorities |-> Unpack32s(sub)])

\* Enumeration ACEType: the known codes, those whose name contains OBJECT
\* and those whose name contains COMPOUND.
ACETypeCodes == 0..19
ObjectACETypes == {5, 6, 7, 8, 11, 12, 15, 16}
CompoundACETypes == {4}

ACEHeaderReprSize == 4

\* _from_binary_ace_header, lines 1915-1920: unpack "<2BH" from the whole buffer.
ACEHeader_create_from_binary(bs) ==
    IF ~UnpackFits(bs, ACEHeaderReprSize) THEN Raise("struct.error")
    ELSE IF bs[1] \notin ACETypeCodes THEN Raise("ValueError")
    ELSE Ok([type |-> bs[1], control_flags |-> bs[2],
             ace_size |-> FromBytesLE(SubSeq(bs, 3, 4))])

BasicACEReprSize == 4

\* _from_binary_b_ace as BasicACE.create_from_binary, lines 2028-2033.
BasicACE_create_from_binary(bs) ==
    LET b == Slice(bs, 0, BasicACEReprSize)
    IN  IF ~UnpackFits(b, BasicACEReprSize) THEN Raise("struct.error")
        ELSE LET sid == SID_create_from_binary(SliceFrom(bs, BasicACEReprSize))
             IN  IF sid.exc # "none" THEN sid
                 ELSE Ok([access_rights_flags |-> FromBytesLE(b), SID |-> sid.val])

ObjectACEReprSize == 40

\* ObjectACE.create_from_binary: the class is created (lines 2117-2124) with
\* _from_binary_b_ace as its create_from_binary, so it unpacks the 40 bytes of
\* "<2I16s16s", reads a SID after them and hands two values to a constructor
\* of five fields, which raises ValueError.
ObjectACE_create_from_binary(bs) ==
    LET b == Slice(bs, 0, ObjectACEReprSize)
    IN  IF ~UnpackFits(b, ObjectACEReprSize) THEN Raise("struct.error")
        ELSE LET sid == SID_create_from_binary(SliceFrom(bs, ObjectACEReprSize))
             IN  IF sid.exc # "none" THEN sid ELSE Raise("ValueError")

\* _from_binary_ace, lines 2135-2148.
ACE_create_from_binary(bs) ==
    LET header == ACEHeader_create_from_binary(Slice(bs, 0, ACEHeaderReprSize))
    IN  IF header.exc # "none" THEN header
        ELSE IF header.val.type \in ObjectACETypes
        THEN LET o == ObjectACE_create_from_binary(SliceFrom(bs, ACEHeaderReprSize))
             IN  IF o.exc # "none" THEN o
                 ELSE Ok([header |-> header.val, basic_ace |-> None, object_ace |-> Some(o.val)])
        ELSE IF header.val.type \in CompoundACETypes
        THEN Ok([header |-> header.val, basic_ace |-> None, object_ace |-> None])
        ELSE LET ba == BasicACE_create_from_binary(SliceFrom(bs, ACEHeaderReprSize))
             IN  IF ba.exc # "none" THEN ba
                 ELSE Ok([header |-> header.val, basic_ace |-> Some(ba.val), object_ace |-> None])

ACLReprSize == 8

\* _from_binary_acl, line 2198: unpack "<B1x2H2x" from binary_stream[:8].
ACLHeader(bs) ==
    LET b == Slice(bs, 0, ACLReprSize)
    IN  IF ~UnpackFits(b, ACLReprSize) THEN Raise("struct.error")
        ELSE Ok([revision_number |-> b[1], size |-> FromBytesLE(SubSeq(b, 3, 4)),
                 ace_len |-> FromBytesLE(SubSeq(b, 5, 6))])

\* Enumeration CollationRule.
CollationRuleCodes == {0, 1, 2, 16, 17, 18, 19}

IndexRootReprSize == 16

\* _from_binary_idx_root, lines 1360-1365: unpack "<3IB3x" from
\* binary_stream[:16], the node header after it, the attribute type (None for 0).
IndexRootHeader(bs) ==
    LET b == Slice(bs, 0, IndexRootReprSize)
    IN  IF ~UnpackFits(b, IndexRootReprSize) THEN Raise("struct.error")
        ELSE LET nh == IndexNodeHeader_create_from_binary(SliceFrom(bs, IndexRootReprSize))
                 at == FromBytesLE(SubSeq(b, 1, 4))
                 ty == IF at # 0 THEN AttrTypes(at) ELSE Ok(0)
             IN  IF nh.exc # "none" THEN nh
                 ELSE IF ty.exc # "none" THEN ty
                 ELSE Ok([attr_type |-> IF at # 0 THEN Some(ty.val) ELSE None,
                          collation_rule |-> FromBytesLE(SubSeq(b, 5, 8)),
                          index_len_in_bytes |-> FromBytesLE(SubSeq(b, 9, 12)),
                          index_len_in_cluster |-> b[13],
                          node_header |-> nh.val])

(***************************************************************************)
(* get_attr_info and BaseAttributeHeader (src/437.py 53-78, 329-418).      *)
(***************************************************************************)
AttrBasicSize == 9

\* A get_attr_info that would hand the type code on as it is.
get_attr_info_RawType(binary_view) ==
    LET b == Slice(binary_view, 0, 9)
    IN  IF ~UnpackFits(b, AttrBasicSize) THEN Raise("struct.error")
        ELSE Ok(<<FromBytesLE(SubSeq(b, 1, 4)), FromBytesLE(SubSeq(b, 5, 8)), b[9] # 0>>)

\* get_attr_info, lines 74-78: unpack "<2IB" from binary_view[:9].
get_attr_info(binary_view) ==
    LET b == Slice(binary_view, 0, 9)
    IN  IF ~UnpackFits(b, AttrBasicSize) THEN Raise("struct.error")
        ELSE LET ty == AttrTypes(FromBytesLE(SubSeq(b, 1, 4)))
             IN  IF ty.exc # "none" THEN ty
                 ELSE Ok(<<ty.val, FromBytesLE(SubSeq(b, 5, 8)), b[9] # 0>>)

BaseReprSize == 16

\* Lines 392-401: unpack "<2I2B3H" from binary_view[:16], read the name.
BaseAttributeHeader_create_from_binary(binary_view) ==
    LET b == Slice(binary_view, 0, BaseReprSize)
    IN  IF ~UnpackFits(b, BaseReprSize) THEN Raise("struct.error")
        ELSE LET name == AttrName(binary_view, b[10], FromBytesLE(SubSeq(b, 11, 12)))
                 ty == AttrTypes(FromBytesLE(SubSeq(b, 1, 4)))
             IN  IF name.exc # "none" THEN name
                 ELSE IF ty.exc # "none" THEN ty
                 ELSE Ok([attr_type_id |-> ty.val,
                          attr_len |-> FromBytesLE(SubSeq(b, 5, 8)),
                          non_resident |-> b[9] # 0,
                          flags |-> AttrFlags(FromBytesLE(SubSeq(b, 13, 14))),
                          attr_id |-> FromBytesLE(SubSeq(b, 15, 16)),
                          attr_name |-> name.val])

(***************************************************************************)
(* Timestamps and StandardInformation (src/437.py 672-840).                *)
(***************************************************************************)
\* FileInfoFlags(flags): the flag enumeration wraps the 32-bit value.
FileInfoFlags(flags) == flags

TimestampsReprSize == 32

\* The four FILETIME values at the start of b, converted.
FourTimes(b) ==
    <<convert_filetime(FromBytesLE(SubSeq(b, 1, 8))),
      convert_filetime(FromBytesLE(SubSeq(b, 9, 16))),
      convert_filetime(FromBytesLE(SubSeq(b, 17, 24))),
      convert_filetime(FromBytesLE(SubSeq(b, 25, 32)))>>

\* _from_binary_ts, lines 680-693: the size test, then unpack "<4Q".
Timestamps_create_from_binary(bs) ==
    IF Len(bs) # TimestampsReprSize THEN Raise("ContentError")
    ELSE Ok(FourTimes(bs))

StandardInformationReprSize == 72
StandardInformationNoV3Size == 48

\* A mistaken reading of lines 784-788: the fields a pre-v3 buffer lacks as 0.
StdInfoNoV3Fields_Zero ==
    [owner_id |-> Some(0), security_id |-> Some(0),
     quota_charged |-> Some(0), usn |-> Some(0)]

\* Lines 784-788: the fields a pre-v3 buffer lacks are None.
StdInfoNoV3Fields ==
    [owner_id |-> None, security_id |-> None, quota_charged |-> None, usn |-> None]

\* The five fields both shapes have.
StdInfoCommon(b) ==
    [timestamps |-> FourTimes(b),
     flags |-> FileInfoFlags(FromBytesLE(SubSeq(b, 33, 36))),
     max_n_versions |-> FromBytesLE(SubSeq(b, 37, 40)),
     version_number |-> FromBytesLE(SubSeq(b, 41, 44)),
     class_id |-> FromBytesLE(SubSeq(b, 45, 48))]

\* _from_binary_stdinfo, lines 774-792: a buffer of exactly 72 bytes is
\* unpacked as "<4Q4I2I2Q"; every other buffer is handed whole to the unpack
\* of "<4Q4I", which takes exactly 48 bytes.
StandardInformation_create_from_binary(bs) ==
    IF Len(bs) = StandardInformationReprSize
    THEN Ok(StdInfoCommon(bs) @@
            [owner_id |-> Some(FromBytesLE(SubSeq(bs, 49, 52))),
             security_id |-> Some(FromBytesLE(SubSeq(bs, 53, 56))),
             quota_charged |-> Some(FromBytesLE(SubSeq(bs, 57, 64))),
             usn |-> Some(FromBytesLE(SubSeq(bs, 65, 72)))])
    ELSE IF ~UnpackFits(bs, StandardInformationNoV3Size) THEN Raise("struct.error")
    ELSE Ok(StdInfoCommon(bs) @@ StdInfoNoV3Fields)

(***************************************************************************)
(* The string form of a SID (src/437.py 1982-1985).  A string is the       *)
(* sequence of its character codes.                                        *)
(***************************************************************************)
\* str(n) of a natural number: its decimal digits.
RECURSIVE Str(_)
Str(n) == IF n < 10 THEN <<48 + n>> ELSE Str(n \div 10) \o <<48 + (n % 10)>>

\* "-".join(parts)
RECURSIVE JoinDash(_)
JoinDash(parts) ==
    IF parts = <<>> THEN <<>>
    ELSE IF Len(parts) = 1 THEN parts[1]
    ELSE parts[1] \o <<45>> \o JoinDash(Tail(parts))

\* _str_sid, lines 1982-1985:
\*   sub_auths = "-".join([str(sub) for sub in self.sub_authorities])
\*   f'S-{self.revision_number}-{self.authority}-{sub_auths}'
SID__str__(sid) ==
    <<83, 45>> \o Str(sid.revision_number) \o <<45>> \o Str(sid.authority) \o <<45>>
    \o JoinDash([i \in 1..Len(sid.sub_authorities) |-> Str(sid.sub_authorities[i])])

(***************************************************************************)
(* SecurityDescriptor (src/437.py 1852-1906, 2190-2307).                   *)
(***************************************************************************)
\* The n ACEs read from offset off on, lines 2203-2207, each after the size
\* the one before it declares; the failure of an ACE is the failure of all.
RECURSIVE ACLAcesFrom(_, _, _)
ACLAcesFrom(bs, off, n) ==
    IF n = 0 THEN Ok(<<>>)
    ELSE LET ace == ACE_create_from_binary(SliceFrom(bs, off))
         IN  IF ace.exc # "none" THEN ace
             ELSE LET rest == ACLAcesFrom(bs, off + ace.val.header.ace_size, n - 1)
                  IN  IF rest.exc # "none" THEN rest
                      ELSE Ok(<<ace.val>> \o rest.val)

\* _from_binary_acl, lines 2198-2212, as the call the SecurityDescriptor makes.
ACL_create_from_binary(bs) ==
    LET h == ACLHeader(bs)
    IN  IF h.exc # "none" THEN h
        ELSE LET aces == ACLAcesFrom(bs, ACLReprSize, h.val.ace_len)
             IN  IF aces.exc # "none" THEN aces
                 ELSE Ok([revision_number |-> h.val.revision_number,
                          size |-> h.val.size, aces |-> aces.val])

\* SecurityDescriptorFlags(flags): the flag enumeration wraps the 16-bit value.
SecurityDescriptorFlags(flags) == flags

SecurityDescriptorHeaderReprSize == 20

\* _from_binary_secd_header, lines 1862-1867: unpack "<B1xH4I" from the
\* whole buffer it is given.
SecurityDescriptorHeader_create_from_binary(bs) ==
    IF ~UnpackFits(bs, SecurityDescriptorHeaderReprSize) THEN Raise("struct.error")
    ELSE Ok([revision_number |-> bs[1],
             control_flags |-> SecurityDescriptorFlags(FromBytesLE(SubSeq(bs, 3, 4))),
             owner_sid_offset |-> FromBytesLE(SubSeq(bs, 5, 8)),
             group_sid_offset |-> FromBytesLE(SubSeq(bs, 9, 12)),
             dacl_offset |-> FromBytesLE(SubSeq(bs, 13, 16)),
             sacl_offset |-> FromBytesLE(SubSeq(bs, 17, 20))])

\* A constructor call that would hand the two ACLs over in the other order.
SecDescRecord_Swapped(header, owner_sid, group_sid, sacl, dacl) ==
    [header |-> header, owner_sid |-> owner_sid, group_sid |-> group_sid,
     sacl |-> dacl, dacl |-> sacl]

\* Line 2264, cls((header, owner_sid, group_sid, sacl, dacl)), on the fields
\* ("header", "owner_sid", "group_sid", "sacl", "dacl") of lines 2304-2305.
SecDescRecord(header, owner_sid, group_sid, sacl, dacl) ==
    [header |-> header, owner_sid |-> owner_sid, group_sid |-> group_sid,
     sacl |-> sacl, dacl |-> dacl]

\* _from_binary_sec_desc, lines 2252-2266: the header from the first 20 bytes,
\* both SIDs, then the SACL and the DACL when their offset is not 0, every
\* offset counted from the start of binary_stream.
SecurityDescriptor_create_from_binary(bs) ==
    LET header == SecurityDescriptorHeader_create_from_binary(
                      Slice(bs, 0, SecurityDescriptorHeaderReprSize))
    IN  IF header.exc # "none" THEN header
        ELSE LET h == header.val
                 owner_sid == SID_create_from_binary(SliceFrom(bs, h.owner_sid_offset))
                 group_sid == SID_create_from_binary(SliceFrom(bs, h.group_sid_offset))
                 sacl == IF h.sacl_offset # 0
                         THEN ACL_create_from_binary(SliceFrom(bs, h.sacl_offset))
                         ELSE Ok(<<>>)
                 dacl == IF h.dacl_offset # 0
                         THEN ACL_create_from_binary(SliceFrom(bs, h.dacl_offset))
                         ELSE Ok(<<>>)
             IN  IF owner_sid.exc # "none" THEN owner_sid
                 ELSE IF group_sid.exc # "none" THEN group_sid
                 ELSE IF sacl.exc # "none" THEN sacl
                 ELSE IF dacl.exc # "none" THEN dacl
                 ELSE Ok(SecDescRecord(h, owner_sid.val, group_sid.val,
                                       IF h.sacl_offset # 0 THEN Some(sacl.val) ELSE None,
                                       IF h.dacl_offset # 0 THEN Some(dacl.val) ELSE None))

(***************************************************************************)
(* The content decoders as steps: a one-shot decoder runs in one step, a   *)
(* list decoder takes one step per pass of its loop.                       *)
(***************************************************************************)
\* UUID(bytes_le=b): the 16 bytes of the UUID, its first three fields being
\* stored little-endian in b; ValueError unless b has 16 bytes.
UUID_bytes_le(b) ==
    IF Len(b) # 16 THEN Raise("ValueError")
    ELSE Ok(<<b[4], b[3], b[2], b[1], b[6], b[5], b[8], b[7]>> \o SubSeq(b, 9, 16))

(***************************************************************************)
(* OBJECT_ID (src/437.py 967-1019).                                        *)
(***************************************************************************)
_UUID_SIZE == 16

\* An id the buffer does not reach, were it filled with zeros.
MissingUuid_ZeroFilled == Some([i \in 1..16 |-> 0])

\* An id the buffer does not reach: None.
MissingUuid == None

\* One element of the list of line 973:
\*   UUID(bytes_le=binary_stream[i*uid_size:(i+1)*uid_size].tobytes())
\*       if i * uid_size < len(binary_stream) else None
ObjectIDUuid(bs, i) ==
    IF i * _UUID_SIZE < Len(bs)
    THEN LET u == UUID_bytes_le(Slice(bs, i * _UUID_SIZE, (i + 1) * _UUID_SIZE))
         IN  IF u.exc # "none" THEN u ELSE Ok(Some(u.val))
    ELSE Ok(MissingUuid)

\* _from_binary_objid, lines 967-976.
ObjectID_create_from_binary(bs) ==
    LET uids == [i \in 1..4 |-> ObjectIDUuid(bs, i - 1)]
    IN  IF \E i \in 1..4 : uids[i].exc # "none"
        THEN uids[CHOOSE i \in 1..4 : uids[i].exc # "none"
                                      /\ \A j \in 1..(i - 1) : uids[j].exc = "none"]
        ELSE Ok([object_id |-> uids[1].val, birth_vol_id |-> uids[2].val,
                 birth_object_id |-> uids[3].val, birth_domain_id |-> uids[4].val])

(***************************************************************************)
(* BITMAP (src/437.py 1427-1493).  The record holds the bytes themselves.  *)
(***************************************************************************)
\* _from_binary_bitmap, lines 1464-1466: cls(binary_stream.tobytes())
Bitmap_create_from_binary(bs) == Ok([_bitmap |-> bs])

RECURSIVE Pow2(_)
Pow2(n) == IF n = 0 THEN 1 ELSE 2 * Pow2(n - 1)

\* A mask that would count the bits of a byte from its high end.
BitMask_HighFirst(bit_offset) == Pow2(7 - bit_offset)

\* 1 << offset
BitMask(bit_offset) == Pow2(bit_offset)

\* _entry_allocated_bitmap, lines 1439-1449, for entry_number >= 0:
\*   index, offset = divmod(entry_number, 8)
\*   bool(self._bitmap[index] & (1 << offset))
entry_allocated(bitmap, entry_number) ==
    IF entry_number \div 8 >= Len(bitmap) THEN Raise("IndexError")
    ELSE Ok(HasFlag(bitmap[(entry_number \div 8) + 1], BitMask(entry_number % 8)))

\* The inner loop of _get_next_empty_bitmap, lines 1460-1462.
RECURSIVE FirstClearBit(_, _)
FirstClearBit(byte, bit_offset) ==
    IF bit_offset = 8 THEN None
    ELSE IF ~HasFlag(byte, BitMask(bit_offset)) THEN Some(bit_offset)
    ELSE FirstClearBit(byte, bit_offset + 1)

\* _get_next_empty_bitmap, lines 1451-1462, from byte i on: the entry found,
\* or None when the loop ends without a return.
RECURSIVE get_next_empty_from(_, _)
get_next_empty_from(bitmap, i) ==
    IF i >= Len(bitmap) THEN None
    ELSE IF bitmap[i + 1] # 255 /\ FirstClearBit(bitmap[i + 1], 0) # None
    THEN Some((i * 8) + FirstClearBit(bitmap[i + 1], 0)[1])
    ELSE get_next_empty_from(bitmap, i + 1)

get_next_empty(bitmap) == get_next_empty_from(bitmap, 0)

\* The generator of _allocated_entries_bitmap, lines 1435-1437, resumed with
\* its loop at entry_number: the entry it yields next, or None when the loop
\* ends (StopIteration).
RECURSIVE NextYield(_, _)
NextYield(bitmap, entry_number) ==
    IF entry_number >= Len(bitmap) * 8 THEN None
    ELSE IF entry_allocated(bitmap, entry_number).val THEN Some(entry_number)
    ELSE NextYield(bitmap, entry_number + 1)

(***************************************************************************)
(* REPARSE_POINT (src/437.py 1499-1675).                                   *)
(***************************************************************************)
JunctionOrMountReprSize == 8
SymbolicLinkReprSize == 12
ReparsePointReprSize == 8

\* A name read at the declared offset counted from the start of the link's
\* buffer, which is the end of the reparse point's fixed header.
ReparseName_FromHeaderEnd(bs, repr_size, name_offset, name_len) ==
    DecodeUtf16le(Slice(bs, name_offset, name_offset + name_len))

\* binary_stream[offset:offset+len].tobytes().decode("utf_16_le") with
\* offset = cls._REPR.size + the declared offset.
ReparseName(bs, repr_size, name_offset, name_len) ==
    DecodeUtf16le(Slice(bs, repr_size + name_offset, repr_size + name_offset + name_len))

\* _from_binary_junc_mnt, lines 1499-1518: unpack "<4H" from binary_stream[:8].
JunctionOrMount_create_from_binary(bs) ==
    LET b == Slice(bs, 0, JunctionOrMountReprSize)
    IN  IF ~UnpackFits(b, JunctionOrMountReprSize) THEN Raise("struct.error")
        ELSE LET target_name == ReparseName(bs, JunctionOrMountReprSize,
                                            FromBytesLE(SubSeq(b, 1, 2)),
                                            FromBytesLE(SubSeq(b, 3, 4)))
                 print_name == ReparseName(bs, JunctionOrMountReprSize,
                                           FromBytesLE(SubSeq(b, 5, 6)),
                                           FromBytesLE(SubSeq(b, 7, 8)))
             IN  IF target_name.exc # "none" THEN target_name
                 ELSE IF print_name.exc # "none" THEN print_name
                 ELSE Ok([target_name |-> target_name.val, print_name |-> print_name.val])

\* _from_binary_syn_link, lines 1547-1568: unpack "<4HI" from binary_stream[:12].
SymbolicLink_create_from_binary(bs) ==
    LET b == Slice(bs, 0, SymbolicLinkReprSize)
    IN  IF ~UnpackFits(b, SymbolicLinkReprSize) THEN Raise("struct.error")
        ELSE LET target_name == ReparseName(bs, SymbolicLinkReprSize,
                                            FromBytesLE(SubSeq(b, 1, 2)),
                                            FromBytesLE(SubSeq(b, 3, 4)))
                 print_name == ReparseName(bs, SymbolicLinkReprSize,
                                           FromBytesLE(SubSeq(b, 5, 6)),
                                           FromBytesLE(SubSeq(b, 7, 8)))
             IN  IF target_name.exc # "none" THEN target_name
                 ELSE IF print_name.exc # "none" THEN print_name
                 ELSE Ok([target_name |-> target_name.val, print_name |-> print_name.val,
                          symbolic_flags |-> FromBytesLE(SubSeq(b, 9, 12))])

\* The codes of the enumeration ReparseType, and its two decoded members.
ReparseTypeCodes == {3, 4, 6, 7, 8, 9, 10, 12, 18, 19, 20}
MOUNT_POINT == 3
SYMLINK == 12

\* ReparseFlags.IS_MICROSOFT, the top bit of the tag.
IS_MICROSOFT == 8

\* reparse_flags & ReparseFlags.IS_MICROSOFT, but for any flag at all.
IsMicrosoftTag_AnyFlag(reparse_flags) == reparse_flags # 0

\* reparse_flags & ReparseFlags.IS_MICROSOFT
IsMicrosoftTag(reparse_flags) == HasFlag(reparse_flags, IS_MICROSOFT)

\* _from_binary_reparse, lines 1599-1630: unpack "<IH2x" from binary_stream[:8].
\* The 32 bits of reparse_tag are taken from its bytes: reparse_tag & 0xFFFF
\* is its two low bytes, (reparse_tag & 0xF0000000) >> 28 the high half of
\* its last byte.
ReparsePoint_create_from_binary(bs) ==
    LET b == Slice(bs, 0, ReparsePointReprSize)
    IN  IF ~UnpackFits(b, ReparsePointReprSize) THEN Raise("struct.error")
        ELSE LET reparse_type == FromBytesLE(SubSeq(b, 1, 2))
                 reparse_flags == b[4] \div 16
                 data_len == FromBytesLE(SubSeq(b, 5, 6))
                 Rec(guid, data) ==
                     Ok([reparse_type |-> reparse_type, reparse_flags |-> reparse_flags,
                         data_len |-> data_len, guid |-> guid, data |-> data])
             IN  IF reparse_type \notin ReparseTypeCodes THEN Raise("ValueError")
                 ELSE IF IsMicrosoftTag(reparse_flags)
                 THEN IF reparse_type = SYMLINK
                      THEN LET data == SymbolicLink_create_from_binary(
                                           SliceFrom(bs, ReparsePointReprSize))
                           IN  IF data.exc # "none" THEN data ELSE Rec(None, data.val)
                      ELSE IF reparse_type = MOUNT_POINT
                      THEN LET data == JunctionOrMount_create_from_binary(
                                           SliceFrom(bs, ReparsePointReprSize))
                           IN  IF data.exc # "none" THEN data ELSE Rec(None, data.val)
                      ELSE Rec(None, SliceFrom(bs, ReparsePointReprSize))
                 ELSE LET guid == UUID_bytes_le(Slice(bs, ReparsePointReprSize,
                                                      ReparsePointReprSize + 16))
                      IN  IF guid.exc # "none" THEN guid
                          ELSE Rec(Some(guid.val), SliceFrom(bs, ReparsePointReprSize + 16))

\* The one-shot decoders of a structure with a name, a content or a value
\* whose length the structure declares.
VariablePart == {"ResidentAttrHeader", "AttributeListEntry", "IndexEntry", "EaEntry"}

\* The decoders of an attribute header, and get_attr_info.
HeaderDecoders ==
    {"get_attr_info", "BaseAttributeHeader", "ResidentAttrHeader", "NonResidentAttrHeader"}

OneShot ==
    VariablePart \cup HeaderDecoders
    \cup {"Timestamps", "StandardInformation", "ACE", "SecurityDescriptor", "SID",
          "ReparsePoint", "Bitmap", "ObjectID", "FileName"}

OneShotResult(d, bs) ==
    IF d = "ResidentAttrHeader" THEN ResidentAttrHeader_create_from_binary(bs)
    ELSE IF d = "AttributeListEntry" THEN AttributeListEntry_create_from_binary(bs)
    ELSE IF d = "IndexEntry" THEN IndexEntry_create_from_binary(bs, None)
    ELSE IF d = "EaEntry" THEN EaEntry_create_from_binary(bs)
    ELSE IF d = "get_attr_info" THEN get_attr_info(bs)
    ELSE IF d = "BaseAttributeHeader" THEN BaseAttributeHeader_create_from_binary(bs)
    ELSE IF d = "NonResidentAttrHeader" THEN NonResidentHeaderFields(bs)
    ELSE IF d = "Timestamps" THEN Timestamps_create_from_binary(bs)
    ELSE IF d = "ACE" THEN ACE_create_from_binary(bs)
    ELSE IF d = "SID" THEN SID_create_from_binary(bs)
    ELSE IF d = "ReparsePoint" THEN ReparsePoint_create_from_binary(bs)
    ELSE IF d = "Bitmap" THEN Bitmap_create_from_binary(bs)
    ELSE IF d = "ObjectID" THEN ObjectID_create_from_binary(bs)
    ELSE IF d = "FileName" THEN FileName_create_from_binary(bs)
    ELSE IF d = "SecurityDescriptor" THEN SecurityDescriptor_create_from_binary(bs)
    ELSE StandardInformation_create_from_binary(bs)

Finish(r) ==
    /\ result' = r
    /\ pc' = IF r.exc = "none" THEN "returned" ELSE "raised"

\* A decoder without a loop: the whole create_from_binary.
DecodeOneShot ==
    /\ pc = "start"
    /\ decoder \in OneShot
    /\ Finish(OneShotResult(decoder, binary_stream))
    /\ UNCHANGED <<decoder, binary_stream, offset, entries>>
    /\ UNCHANGED drvars

\* The classes _create_attrcontent_class builds, among the decoders here.
GeneratedClasses ==
    (OneShot \ HeaderDecoders)

\* The globals of a function create_func_from_str builds (lines 131-135):
\* exec_namespace = {"__name__": f_name}, to which exec adds __builtins__
\* and the function itself.
ExecNamespace(f_name) == {"__name__", "__builtins__", f_name}

\* The __eq__ of a generated class, lines 155-157:
\*   return <self.f == other.f and ...> if isinstance(other, <name>) else False
\* The name of the class is looked up in the function's globals.
GeneratedEq(name, self, other) ==
    IF name \notin ExecNamespace("__eq__") THEN Raise("NameError")
    ELSE Ok(self.val = other.val)

\* a == b for two decoded objects, each an identity and a value: the
\* generated __eq__ for a generated class, the comparison of tuples for
\* get_attr_info's tuple, and object's comparison by identity for the header
\* classes, which define no __eq__.
RecordEq(d, a, b) ==
    IF d \in GeneratedClasses THEN GeneratedEq(d, a, b)
    ELSE IF d = "get_attr_info" THEN Ok(a.val = b.val)
    ELSE Ok(a.id = b.id)

\* create_from_binary on the buffer, for the first time or, `again`, on the
\* buffer a record has been returned of, the two records then compared
\* with ==.
DecodeTwice(again) ==
    /\ pc = IF again THEN "returned" ELSE "start"
    /\ decoder \in OneShot
    /\ \E r \in {OneShotResult(decoder, binary_stream)} :
          IF again
          THEN /\ result' = Ok([first |-> result.val, second |-> r,
                                equal |-> RecordEq(decoder, [id |-> 1, val |-> result.val],
                                                   [id |-> 2, val |-> r.val])])
               /\ pc' = "compared"
          ELSE Finish(r)
    /\ UNCHANGED <<decoder, binary_stream, offset, entries>>
    /\ UNCHANGED drvars

\* The names a function of the module can read: its locals, the classes and
\* modules that 437.py binds, the builtins.
NamesInScope(locals) == locals \cup {"SID", "FileName", "struct", "len"}

\* len(s.encode("utf_16_le")): two bytes for each UTF-16 code unit.
RECURSIVE EncodedUtf16Len(_)
EncodedUtf16Len(points) ==
    IF points = <<>> THEN 0
    ELSE (IF points[1] >= 65536 THEN 4 ELSE 2) + EncodedUtf16Len(Tail(points))

\* _len_sid, lines 1978-1980: return SID._REPR.size + (4 * sub_auth_len)
_len_sid(self) ==
    IF "sub_auth_len" \notin NamesInScope({"self"}) THEN Raise("NameError")
    ELSE Ok(SIDReprSize + 4 * Len(self.sub_authorities))

\* _len_filename, lines 1137-1138:
\*   return FileName._REPR.size + len(name.encode("utf_16_le"))
_len_filename(self) ==
    IF "name" \notin NamesInScope({"self"}) THEN Raise("NameError")
    ELSE Ok(FileNameReprSize + EncodedUtf16Len(self.name))

\* len(record) on a decoded SID or FileName.
ContentLen ==
    /\ pc = "returned"
    /\ decoder \in {"SID", "FileName"}
    /\ result' = IF decoder = "SID" THEN _len_sid(result.val) ELSE _len_filename(result.val)
    /\ pc' = "len"
    /\ UNCHANGED <<decoder, binary_stream, offset, entries>>
    /\ UNCHANGED drvars

\* str(sid) of the SID a decode returned: the record and its string form.
SIDStr ==
    /\ pc = "returned"
    /\ decoder = "SID"
    /\ pc' = "printed"
    /\ result' = Ok([sid |-> result.val, str |-> SID__str__(result.val)])
    /\ UNCHANGED <<decoder, binary_stream, offset, entries>>
    /\ UNCHANGED drvars

\* bitmap.entry_allocated(n) on a decoded Bitmap, n up to past its last bit.
BitmapEntryAllocated ==
    /\ pc = "returned"
    /\ decoder = "Bitmap"
    /\ \E n \in 0..(8 * Len(result.val._bitmap) + 1) :
          /\ offset' = n
          /\ result' = entry_allocated(result.val._bitmap, n)
    /\ pc' = "entry_allocated"
    /\ UNCHANGED <<decoder, binary_stream, entries>>
    /\ UNCHANGED drvars

\* bitmap.get_next_empty() on a decoded Bitmap.
BitmapGetNextEmpty ==
    /\ pc = "returned"
    /\ decoder = "Bitmap"
    /\ result' = Ok(get_next_empty(result.val._bitmap))
    /\ pc' = "get_next_empty"
    /\ UNCHANGED <<decoder, binary_stream, offset, entries>>
    /\ UNCHANGED drvars

\* A call of bitmap.allocated_entries(): a new generator, its loop at entry
\* 0 and nothing yielded.  The first call is made on the decoded Bitmap, a
\* further one when the generator of the call before is exhausted; result
\* holds the bitmap and the sequences the exhausted generators yielded.
BitmapAllocatedEntries ==
    /\ decoder = "Bitmap"
    /\ \/ /\ pc = "returned"
          /\ result' = Ok([_bitmap |-> result.val._bitmap, yielded |-> <<>>])
       \/ /\ pc = "exhausted"
          /\ Len(result.val.yielded) < MaxCalls
          /\ UNCHANGED result
    /\ pc' = "generator"
    /\ offset' = 0
    /\ entries' = <<>>
    /\ UNCHANGED <<decoder, binary_stream>>
    /\ UNCHANGED drvars

\* next() on the generator: it runs to its next yield or to its end.
BitmapNext ==
    /\ decoder = "Bitmap"
    /\ pc = "generator"
    /\ LET y == NextYield(result.val._bitmap, offset)
       IN  IF y # None
           THEN /\ entries' = Append(entries, y[1])
                /\ offset' = y[1] + 1
                /\ UNCHANGED <<pc, result>>
           ELSE /\ pc' = "exhausted"
                /\ result' = Ok([result.val EXCEPT !.yielded = Append(@, entries)])
                /\ UNCHANGED <<offset, entries>>
    /\ UNCHANGED <<decoder, binary_stream>>
    /\ UNCHANGED drvars

\* A loop that would step by the fixed size of an entry.
AttrListAdvance_FixedSize(off, entry) == off + AttrListEntryReprSize

\* Line 921: offset += len(entry).
AttrListAdvance(off, entry) == off + entry.entry_len

\* _from_binary_attrlist, lines 916-917.
AttrListStart ==
    /\ pc = "start"
    /\ decoder = "AttributeList"
    /\ pc' = "loop"
    /\ offset' = 0
    /\ entries' = <<>>
    /\ UNCHANGED <<decoder, binary_stream, result>>
    /\ UNCHANGED drvars

\* One pass of the loop of lines 919-925, and the return of line 928 when the
\* pass breaks.
AttrListStep ==
    /\ pc = "loop"
    /\ decoder = "AttributeList"
    /\ Len(entries) < MaxPasses
    /\ LET entry == AttributeListEntry_create_from_binary(SliceFrom(binary_stream, offset))
       IN  IF entry.exc # "none"
           THEN /\ Finish(entry)
                /\ UNCHANGED <<offset, entries>>
           ELSE /\ offset' = AttrListAdvance(offset, entry.val)
                /\ entries' = Append(entries, entry.val)
                /\ IF offset' >= Len(binary_stream)
                   THEN Finish(Ok(entries'))
                   ELSE UNCHANGED <<pc, result>>
    /\ UNCHANGED <<decoder, binary_stream>>
    /\ UNCHANGED drvars

\* _from_binary_ea, lines 1797-1798.
EaStart ==
    /\ pc = "start"
    /\ decoder = "Ea"
    /\ pc' = "loop"
    /\ offset' = 0
    /\ entries' = <<>>
    /\ UNCHANGED <<decoder, binary_stream, result>>
    /\ UNCHANGED drvars

\* One pass of the loop of lines 1802-1807, and the return of lines 1808-1812
\* when the pass breaks.
EaStep ==
    /\ pc = "loop"
    /\ decoder = "Ea"
    /\ Len(entries) < MaxPasses
    /\ LET entry == EaEntry_create_from_binary(SliceFrom(binary_stream, offset))
       IN  IF entry.exc # "none"
           THEN /\ Finish(entry)
                /\ UNCHANGED <<offset, entries>>
           ELSE /\ offset' = offset + entry.val.offset_next_ea
                /\ entries' = Append(entries, entry.val)
                /\ IF offset' >= Len(binary_stream)
                   THEN Finish(Ok(entries'))
                   ELSE UNCHANGED <<pc, result>>
    /\ UNCHANGED <<decoder, binary_stream>>
    /\ UNCHANGED drvars

\* A loop that would run until the offset reaches the end of the buffer.
ACLLoopDone_LengthDriven(aces, ace_len, off, bs) == off >= Len(bs)

\* Line 2203, for i in range(ace_len): the loop has run its last pass once
\* ace_len ACEs are in the list, whatever the offset reached.
ACLLoopDone(aces, ace_len, off, bs) == Len(aces) = ace_len

\* _from_binary_acl, lines 2198-2202; range(0) returns at once.
ACLStart ==
    /\ pc = "start"
    /\ decoder = "ACL"
    /\ LET h == ACLHeader(binary_stream)
       IN  IF h.exc # "none"
           THEN /\ Finish(h)
                /\ UNCHANGED <<offset, entries>>
           ELSE /\ offset' = ACLReprSize
                /\ entries' = <<>>
                /\ IF ACLLoopDone(<<>>, h.val.ace_len, ACLReprSize, binary_stream)
                   THEN Finish(Ok([revision_number |-> h.val.revision_number,
                                   size |-> h.val.size, aces |-> <<>>]))
                   ELSE pc' = "loop" /\ UNCHANGED result
    /\ UNCHANGED <<decoder, binary_stream>>
    /\ UNCHANGED drvars

\* One pass of the loop of lines 2203-2207, and lines 2208-2212 after the
\* last pass.
ACLStep ==
    /\ pc = "loop"
    /\ decoder = "ACL"
    /\ LET h == ACLHeader(binary_stream).val
           ace == ACE_create_from_binary(SliceFrom(binary_stream, offset))
       IN  IF ace.exc # "none"
           THEN /\ Finish(ace)
                /\ UNCHANGED <<offset, entries>>
           ELSE /\ offset' = offset + ace.val.header.ace_size
                /\ entries' = Append(entries, ace.val)
                /\ IF ACLLoopDone(entries', h.ace_len, offset', binary_stream)
                   THEN Finish(Ok([revision_number |-> h.revision_number,
                                   size |-> h.size, aces |-> entries']))
                   ELSE UNCHANGED <<pc, result>>
    /\ UNCHANGED <<decoder, binary_stream>>
    /\ UNCHANGED drvars

\* A loop that would stop on the child-node bit.
IsLastEntry_ChildBit(entry) == HasFlag(entry.flags, CHILD_NODE_EXISTS)

\* Line 1370: entry.flags & IndexEntryFlags.LAST_ENTRY.
IsLastEntry(entry) == HasFlag(entry.flags, LAST_ENTRY)

\* _from_binary_idx_root, lines 1360-1365.
IndexRootStart ==
    /\ pc = "start"
    /\ decoder = "IndexRoot"
    /\ LET h == IndexRootHeader(binary_stream)
       IN  IF h.exc # "none"
           THEN /\ Finish(h)
                /\ UNCHANGED <<offset, entries>>
           ELSE /\ offset' = IndexRootReprSize + h.val.node_header.start_offset
                /\ entries' = <<>>
                /\ pc' = "loop"
                /\ UNCHANGED result
    /\ UNCHANGED <<decoder, binary_stream>>
    /\ UNCHANGED drvars

\* One pass of the loop of lines 1367-1373, and lines 1375-1380 when the pass
\* breaks.
IndexRootStep ==
    /\ pc = "loop"
    /\ decoder = "IndexRoot"
    /\ Len(entries) < MaxPasses
    /\ LET h == IndexRootHeader(binary_stream).val
           entry == IndexEntry_create_from_binary(SliceFrom(binary_stream, offset), h.attr_type)
       IN  IF entry.exc # "none"
           THEN /\ Finish(entry)
                /\ UNCHANGED <<offset, entries>>
           ELSE /\ entries' = Append(entries, entry.val)
                /\ IF IsLastEntry(entry.val)
                   THEN /\ UNCHANGED offset
                        /\ IF h.collation_rule \in CollationRuleCodes
                           THEN Finish(Ok(h @@ [index_entry_list |-> entries']))
                           ELSE Finish(Raise("ValueError"))
                   ELSE /\ offset' = offset + entry.val.entry_len
                        /\ UNCHANGED <<pc, result>>
    /\ UNCHANGED <<decoder, binary_stream>>
    /\ UNCHANGED drvars

(***************************************************************************)
(* Input buffers.                                                          *)
(***************************************************************************)
\* n as k little-endian bytes.
RECURSIVE LEBytes(_, _)
LEBytes(n, k) == IF k = 0 THEN <<>> ELSE <<n % 256>> \o LEBytes(n \div 256, k - 1)

RECURSIVE Zeros(_)
Zeros(k) == IF k = 0 THEN <<>> ELSE <<0>> \o Zeros(k - 1)

\* Bytes the run-list buffers are built from: the terminator, the headers
\* 0x01 (sparse, 1 length byte) and 0x11, and 0xFF (as a field, a negative
\* relative offset).
ByteVals == {0, 1, 17, 255}

\* The run lists of the format's documentation: (4, 100); a sparse run; a
\* two-byte offset field; two runs with a negative relative offset.
ExampleRunLists ==
    {<<17, 4, 100, 0>>, <<1, 4, 0>>, <<33, 4, 100, 1, 0>>, <<17, 4, 100, 17, 2, 255, 0>>}

DRBufs == SeqsUpTo(ByteVals, MaxLen) \cup ExampleRunLists

\* A non-resident attribute: the 64-byte header, the name at offset 64 and
\* the run list after the name.
MkNonResident(attr_type, name, runlist) ==
    LEBytes(attr_type, 4) \o LEBytes(64 + Len(name) + Len(runlist), 4) \o <<1>>
    \o <<Len(name) \div 2>> \o LEBytes(64, 2) \o LEBytes(0, 2) \o LEBytes(3, 2)
    \o LEBytes(0, 8) \o LEBytes(7, 8) \o LEBytes(64 + Len(name), 2) \o LEBytes(0, 2)
    \o Zeros(4) \o LEBytes(32768, 8) \o LEBytes(30000, 8) \o LEBytes(30000, 8)
    \o name \o runlist

HdrBufs ==
    {MkNonResident(ty, nm, rl) : ty \in {128, 5}, nm \in {<<>>, <<65, 0>>},
                                 rl \in {b \in DRBufs : Len(b) <= 2} \cup ExampleRunLists}
    \cup {SubSeq(MkNonResident(128, <<>>, <<0>>), 1, 63)}

\* Buffers of the concurrent callers.
ConcBufs == {b \in DRBufs : Len(b) <= 3} \cup {<<17, 4, 100, 0>>}

(***************************************************************************)
(* Specifications of the run-list decoders.                                *)
(***************************************************************************)
InitContentIdle ==
    /\ decoder = "none"
    /\ binary_stream = <<>>
    /\ pc = "idle"
    /\ offset = 0
    /\ entries = <<>>
    /\ result = Ok(<<>>)

Init ==
    /\ heap = [r \in {DefaultList} |-> <<>>]
    /\ th = [t \in Callers |-> IdleFrame]
    /\ returned = {}
    /\ ncalls = 0
    /\ InitContentIdle

\* Decode calls follow one another: a call starts only when no decode is
\* under way.
Next ==
    \/ \E t \in Callers, b \in DRBufs :
          (\A u \in Callers : NotRunning(u)) /\ DataRunsCall(t, b)
    \/ \E t \in Callers, b \in HdrBufs, l \in BOOLEAN :
          (\A u \in Callers : NotRunning(u)) /\ NonResidentCall(t, l, b)
    \/ \E t \in Callers : DataRunsStep(t)

Spec == Init /\ [][Next]_vars

\* Two callers whose decodes interleave at the loop's iterations.
NextConc ==
    \/ \E t \in Callers, b \in ConcBufs : DataRunsCall(t, b)
    \/ \E t \in Callers, l \in BOOLEAN :
          \E b \in {MkNonResident(128, <<>>, rl) : rl \in {<<0>>, <<1, 4, 0>>}} :
             NonResidentCall(t, l, b)
    \/ \E t \in Callers : DataRunsStep(t)

SpecConc == Init /\ [][NextConc]_vars

\* Run lists with sparse runs before, between and after the others, with a
\* negative relative offset, with a run of no length field, and run lists
\* that end without a terminator.
SparseRunLists ==
    {<<0>>, <<17, 4, 100, 0>>, <<16, 7, 0>>,
     <<17, 4, 100, 1, 5, 17, 2, 10, 0>>,
     <<1, 5, 1, 6, 17, 2, 10, 0>>,
     <<17, 4, 100, 1, 5, 1, 6, 17, 2, 255, 1, 9, 0>>}
UnterminatedRunLists == {<<>>, <<1>>, <<17, 4>>, <<17, 4, 100, 1, 5>>}

RunHdrBufs ==
    {MkNonResident(128, nm, rl) :
        nm \in {<<>>, <<65, 0>>}, rl \in {<<17, 4, 100, 1, 5, 17, 2, 10, 0>>, <<1>>}}
    \cup {SubSeq(MkNonResident(128, <<>>, <<0>>), 1, 63)}

\* One caller decoding run lists and headers one after the other; a decode
\* under way goes on to its end.
NextRuns ==
    \/ \E b \in SparseRunLists \cup UnterminatedRunLists : NotRunning(1) /\ DataRunsCall(1, b)
    \/ \E b \in RunHdrBufs, l \in BOOLEAN : NotRunning(1) /\ NonResidentCall(1, l, b)
    \/ DataRunsStep(1)

SpecRuns == Init /\ [][NextRuns]_vars /\ WF_vars(DataRunsStep(1))


(***************************************************************************)
(* Input buffers of the content decoders: well-formed structures built     *)
(* field by field, their truncations, and lists of them.                   *)
(***************************************************************************)
Prefixes(b) == {SubSeq(b, 1, k) : k \in 0..Len(b)}
StrictPrefixes(b) == {SubSeq(b, 1, k) : k \in 0..(Len(b) - 1)}

\* Padding that brings n to the next multiple of 8.
PadTo8(n) == (8 - (n % 8)) % 8

RECURSIVE Concat(_)
Concat(ss) == IF ss = <<>> THEN <<>> ELSE ss[1] \o Concat(Tail(ss))

\* Sequences over S of length 1..n.
RECURSIVE ListsUpTo(_, _)
ListsUpTo(S, n) ==
    IF n = 0 THEN {}
    ELSE {<<x>> : x \in S}
         \cup {Append(l, x) : l \in {m \in ListsUpTo(S, n - 1) : Len(m) = n - 1}, x \in S}
         \cup ListsUpTo(S, n - 1)

NameA == <<65, 0>>
NameAB == <<65, 0, 66, 0>>

\* A resident attribute: the 24-byte header, the name at offset 24, the content.
MkResident(attr_type, name, content) ==
    LEBytes(attr_type, 4) \o LEBytes(24 + Len(name) + Len(content), 4) \o <<0>>
    \o <<Len(name) \div 2>> \o LEBytes(24, 2) \o LEBytes(0, 2) \o LEBytes(1, 2)
    \o LEBytes(Len(content), 4) \o LEBytes(24 + Len(name), 2) \o <<0, 0>>
    \o name \o content

ResidentBufs ==
    UNION {Prefixes(MkResident(ty, nm, ct)) :
              ty \in {16, 5}, nm \in {<<>>, NameA, NameAB}, ct \in {<<>>, <<7, 9>>}}

\* An ATTRIBUTE_LIST entry: 26 fixed bytes, the name at offset 26, padding.
MkAttrListEntry(attr_type, name, pad) ==
    LEBytes(attr_type, 4) \o LEBytes(26 + Len(name) + pad, 2) \o <<Len(name) \div 2>>
    \o <<26>> \o LEBytes(0, 8) \o LEBytes(5, 6) \o LEBytes(1, 2) \o LEBytes(2, 2)
    \o name \o Zeros(pad)

\* The entries of the input lists, as <<attribute type, name bytes, padding>>.
AttrListParams == {<<128, <<>>, 6>>, <<48, NameA, 4>>, <<16, NameAB, 0>>}

AttrListEntries == {MkAttrListEntry(e[1], e[2], e[3]) : e \in AttrListParams}

AttrListEntryBufs ==
    UNION {Prefixes(e) : e \in AttrListEntries \cup {MkAttrListEntry(5, <<>>, 0)}}

\* Exactly N concatenated entries, N in 1..MaxEntries.
AttrListFull == {Concat(l) : l \in ListsUpTo(AttrListEntries, MaxEntries)}

\* b with the bytes v written over it from offset at.
SetBytes(b, at, v) ==
    [i \in 1..Len(b) |-> IF at < i /\ i <= at + Len(v) THEN v[i - at] ELSE b[i]]

\* Lists whose last entry declares the length 0.
AttrListZeroLen ==
    {pre \o SetBytes(MkAttrListEntry(128, <<>>, 6), 4, <<0, 0>>) :
        pre \in {<<>>} \cup AttrListEntries}

\* The full lists, the lists cut short by one or two bytes, and the lists
\* with an entry of declared length 0.
AttrListBufs ==
    AttrListFull \cup {SubSeq(b, 1, Len(b) - k) : b \in AttrListFull, k \in {1, 2}}
    \cup AttrListZeroLen

\* An index entry: 16 fixed bytes, the content, padding to 8, the child VCN.
MkIndexEntry(content, flags) ==
    LET pad == PadTo8(16 + Len(content))
        child == IF HasFlag(flags, CHILD_NODE_EXISTS) THEN 8 ELSE 0
    IN  LEBytes(9, 8) \o LEBytes(16 + Len(content) + pad + child, 2)
        \o LEBytes(Len(content), 2) \o LEBytes(flags, 4) \o content \o Zeros(pad)
        \o (IF child = 8 THEN LEBytes(3, 8) ELSE <<>>)

IndexEntryBufs ==
    UNION {Prefixes(MkIndexEntry(ct, fl)) : ct \in {<<>>, <<1, 2, 3>>}, fl \in 0..3}

\* An EA entry: 8 fixed bytes, the ASCII name, padding to 8, the value.
MkEaEntry(name, value) ==
    LET pad == PadTo8(8 + Len(name))
    IN  LEBytes(8 + Len(name) + pad + Len(value), 4) \o <<0>> \o <<Len(name)>>
        \o LEBytes(Len(value), 2) \o name \o Zeros(pad) \o value

EaEntryBufs ==
    UNION {Prefixes(MkEaEntry(nm, v)) : nm \in {<<69>>, <<69, 65>>}, v \in {<<>>, <<1, 2, 3>>}}

EaEntries == {MkEaEntry(nm, v) : nm \in {<<69>>, <<69, 65>>}, v \in {<<>>, <<1, 2, 3>>}}

\* EA lists: whole entries one after the other, the same cut short, and
\* lists whose last entry declares the next-entry offset 0.
EaBufs ==
    {Concat(l) : l \in ListsUpTo(EaEntries, MaxEntries)}
    \cup {SubSeq(Concat(l), 1, Len(Concat(l)) - 4) : l \in ListsUpTo(EaEntries, 2)}
    \cup {pre \o SetBytes(MkEaEntry(<<69>>, <<>>), 0, <<0, 0, 0, 0>>) :
             pre \in {<<>>} \cup EaEntries}

\* A SID with the given sub-authorities.
RECURSIVE Pack32s(_)
Pack32s(subs) == IF subs = <<>> THEN <<>> ELSE LEBytes(subs[1], 4) \o Pack32s(Tail(subs))

MkSID(subs) == <<1, Len(subs)>> \o <<0, 0, 0, 0, 0, 5>> \o Pack32s(subs)

\* n as k big-endian bytes.
RECURSIVE BEBytes(_, _)
BEBytes(n, k) == IF k = 0 THEN <<>> ELSE BEBytes(n \div 256, k - 1) \o <<n % 256>>

\* A SID of the given revision, authority and sub-authorities.
MkSIDOf(q) == <<q[1], Len(q[3])>> \o BEBytes(q[2], 6) \o Pack32s(q[3])

\* <<revision, authority, sub-authorities>> of the SIDs decoded alone.
SIDParams ==
    {1, 2} \X {5, 0, 258, 16777216}
    \X {<<>>, <<0>>, <<21>>, <<32, 544>>, <<21, 1013, 30300820>>,
        <<21, 76238110, 33610443, 30300820, 1013>>}

\* The SIDs, one cut at every length, and one followed by other bytes.
SIDBufs ==
    {MkSIDOf(q) : q \in SIDParams}
    \cup Prefixes(MkSIDOf(<<1, 5, <<21, 1013>> >>))
    \cup {MkSIDOf(<<1, 5, <<21>> >>) \o <<9, 9, 9, 9>>}

\* An ACE: the 4-byte header declaring `size`, then the body.
MkACE(type, size, body) == <<type, 0>> \o LEBytes(size, 2) \o body

BasicBody(subs) == LEBytes(2032127, 4) \o MkSID(subs)
ObjectBody(subs) == LEBytes(1, 4) \o LEBytes(0, 4) \o Zeros(32) \o MkSID(subs)

\* Well-formed ACEs (basic, with padding after the SID, compound, object),
\* and ACEs that do not decode: an unknown type, a SID cut short.
GoodACEs ==
    {MkACE(0, 20, BasicBody(<<18>>)),
     MkACE(1, 24, BasicBody(<<32, 544>>)),
     MkACE(0, 24, BasicBody(<<18>>) \o Zeros(4)),
     MkACE(4, 8, Zeros(4))}

BadACEs ==
    {MkACE(5, 56, ObjectBody(<<18>>)),
     MkACE(77, 20, BasicBody(<<18>>)),
     MkACE(0, 20, SubSeq(BasicBody(<<18, 19>>), 1, 16))}

\* <<type, sub-authorities>> of the basic and of the object ACEs decoded alone.
BasicACEParams == {0, 1, 2, 9} \X {<<>>, <<18>>, <<32, 544>>}
ObjectACEParams == {5, 7, 11} \X {<<>>, <<18>>, <<32, 544>>}

MkBasicACE(q) == MkACE(q[1], 12 + 4 * Len(q[2]), BasicBody(q[2]))
MkObjectACE(q) == MkACE(q[1], 48 + 4 * Len(q[2]), ObjectBody(q[2]))

\* ACEs decoded alone: basic, object and compound ones, well formed, cut
\* short, followed by other bytes, and of an unknown type.
ACEBufs ==
    {MkBasicACE(q) : q \in BasicACEParams}
    \cup {MkObjectACE(q) : q \in ObjectACEParams}
    \cup {MkACE(4, 4 + Len(body), body) : body \in {<<>>, Zeros(4), BasicBody(<<18>>)}}
    \cup GoodACEs \cup BadACEs
    \cup Prefixes(MkBasicACE(<<0, <<18>> >>))
    \cup {SubSeq(MkObjectACE(<<5, <<18>> >>), 1, k) : k \in {4, 43, 44, 52, 55}}
    \cup {MkBasicACE(<<1, <<18>> >>) \o <<255, 255>>}

\* An ACL: the 8-byte header declaring ace_count, the ACEs, trailing bytes.
MkACL(ace_count, aces, tail) ==
    <<2, 0>> \o LEBytes(8 + Len(aces), 2) \o LEBytes(ace_count, 2) \o <<0, 0>>
    \o aces \o tail

ACLBufs ==
    {MkACL(n, Concat(l), tl) :
        n \in 0..MaxEntries,
        l \in ListsUpTo(GoodACEs \cup BadACEs, MaxEntries - 1) \cup {<<>>},
        tl \in {<<>>, <<255, 255, 255>>}}
    \cup StrictPrefixes(MkACL(1, MkACE(0, 20, BasicBody(<<18>>)), <<>>))

\* The ACLs of the input security descriptors: one ACCESS_ALLOWED ACE, one
\* SYSTEM_AUDIT ACE, no ACE, one OBJECT ACE.
AllowACL == MkACL(1, MkACE(0, 20, BasicBody(<<18>>)), <<>>)
AuditACL == MkACL(1, MkACE(2, 24, BasicBody(<<32, 544>>)), <<>>)
EmptyACL == MkACL(0, <<>>, <<>>)
ObjectACL == MkACL(1, MkACE(5, 56, ObjectBody(<<18>>)), <<>>)

\* A security descriptor: the 20-byte header, then the two SIDs and the two
\* ACLs (an ACL given as the empty sequence is left out and its offset is 0),
\* the SIDs first or the ACLs first.
MkSecDesc(owner, group, dacl, sacl, sids_first) ==
    LET o == MkSID(owner)
        g == MkSID(group)
        o_off == IF sids_first THEN 20 ELSE 20 + Len(sacl) + Len(dacl)
        g_off == o_off + Len(o)
        s_off == IF sids_first THEN 20 + Len(o) + Len(g) + Len(dacl) ELSE 20
        d_off == IF sids_first THEN 20 + Len(o) + Len(g) ELSE 20 + Len(sacl)
    IN  <<1, 0>> \o LEBytes(32772, 2) \o LEBytes(o_off, 4) \o LEBytes(g_off, 4)
        \o LEBytes(IF dacl = <<>> THEN 0 ELSE d_off, 4)
        \o LEBytes(IF sacl = <<>> THEN 0 ELSE s_off, 4)
        \o (IF sids_first THEN o \o g \o dacl \o sacl ELSE sacl \o dacl \o o \o g)

\* <<owner, group, DACL, SACL, SIDs first>> of the input descriptors.
SecDescParams ==
    {<<18>>, <<21, 7, 500>>} \X {<<32, 544>>} \X {<<>>, AllowACL, EmptyACL}
    \X {<<>>, AuditACL, AllowACL} \X BOOLEAN

\* The descriptors, one cut at every length, and descriptors whose DACL or
\* SACL holds an ACE that does not decode.
SecDescBufs ==
    {MkSecDesc(q[1], q[2], q[3], q[4], q[5]) : q \in SecDescParams}
    \cup Prefixes(MkSecDesc(<<18>>, <<32, 544>>, AllowACL, AuditACL, TRUE))
    \cup {MkSecDesc(<<18>>, <<32, 544>>, ObjectACL, <<>>, TRUE),
          MkSecDesc(<<18>>, <<32, 544>>, AllowACL, ObjectACL, FALSE)}

\* An INDEX_ROOT: 16 fixed bytes, the 16-byte node header, `gap` unused
\* bytes, the entries.
MkIndexRoot(attr_type, collation, gap, ents) ==
    LEBytes(attr_type, 4) \o LEBytes(collation, 4) \o LEBytes(4096, 4) \o <<1, 0, 0, 0>>
    \o LEBytes(16 + gap, 4) \o LEBytes(16 + gap + Len(ents), 4)
    \o LEBytes(16 + gap + Len(ents), 4) \o LEBytes(0, 4)
    \o Zeros(gap) \o ents

\* A FILE_NAME content: 66 fixed bytes and the name.
MkFileName(name) ==
    LEBytes(5, 6) \o LEBytes(1, 2) \o LEBytes(1000, 8) \o LEBytes(2000, 8)
    \o LEBytes(3000, 8) \o LEBytes(4000, 8) \o LEBytes(4096, 8) \o LEBytes(10, 8)
    \o LEBytes(32, 4) \o LEBytes(0, 4) \o <<Len(name) \div 2, 1>> \o name

IndexRootEntries ==
    {MkIndexEntry(ct, fl) : ct \in {<<>>, <<1, 2, 3>>, MkFileName(NameA)}, fl \in {0, 2, 3}}

\* Index roots whose last entry declares the length 0 and is not flagged last.
IndexRootZeroLen ==
    {MkIndexRoot(0, 0, 0, pre \o SetBytes(MkIndexEntry(<<>>, 0), 8, <<0, 0>>)) :
        pre \in {<<>>, MkIndexEntry(<<1, 2, 3>>, 0)}}

IndexRootBufs ==
    {MkIndexRoot(ty, 0, gap, Concat(l)) :
        ty \in {0, 48}, gap \in {0, 8}, l \in ListsUpTo(IndexRootEntries, MaxEntries)}
    \cup {MkIndexRoot(ty, co, 0, MkIndexEntry(<<>>, 2)) : ty \in {144, 5}, co \in {1, 5}}
    \cup StrictPrefixes(MkIndexRoot(0, 0, 0, MkIndexEntry(<<>>, 2)))
    \cup IndexRootZeroLen

\* A STANDARD_INFORMATION: four times, flags and three numbers, then, when
\* v3 is not the empty tuple, owner id, security id, quota and USN.
MkStdInfo(times, flags, nums, v3) ==
    LEBytes(times[1], 8) \o LEBytes(times[2], 8) \o LEBytes(times[3], 8)
    \o LEBytes(times[4], 8) \o LEBytes(flags, 4)
    \o LEBytes(nums[1], 4) \o LEBytes(nums[2], 4) \o LEBytes(nums[3], 4)
    \o (IF v3 = <<>> THEN <<>>
        ELSE LEBytes(v3[1], 4) \o LEBytes(v3[2], 4) \o LEBytes(v3[3], 8) \o LEBytes(v3[4], 8))

\* <<times, flags, numbers, v3 fields>> of the input buffers.
StdInfoParams ==
    {<<1000, 2000, 3000, 4005>>, <<0, 0, 0, 0>>} \X {0, 32} \X {<<0, 0, 0>>, <<1, 2, 3>>}
    \X {<<>>, <<0, 0, 0, 0>>, <<7, 258, 4096, 70000>>}

StdInfoFull == {MkStdInfo(q[1], q[2], q[3], q[4]) : q \in StdInfoParams}

\* Buffers of every length from 0 to 74.
StdInfoOddSizes ==
    UNION {Prefixes(MkStdInfo(<<1000, 2000, 3000, 4005>>, 32, <<1, 2, 3>>,
                              <<7, 258, 4096, 70000>>) \o <<0, 0>>)}

StdInfoBufs == StdInfoFull \cup StdInfoOddSizes

\* Buffers of every length from 0 to 34, and 32-byte buffers.
TimestampsBufs ==
    Prefixes(LEBytes(1000, 8) \o LEBytes(2000, 8) \o LEBytes(3000, 8)
             \o LEBytes(4005, 8) \o <<0, 0>>)
    \cup {Zeros(32), Zeros(48)}

\* Resident attributes of known and unknown type codes.
ResidentTypeBufs == {MkResident(ty, <<>>, <<7, 9>>) : ty \in {0, 5, 128, 256, 257, 65552}}

\* Resident attributes whose attr_len field (bytes 4..7) is smaller than the
\* header or larger than the buffer.
ResidentBadLen ==
    {SetBytes(MkResident(16, nm, ct), 4, LEBytes(v, 4)) :
        nm \in {<<>>, NameA}, ct \in {<<>>, <<7, 9>>}, v \in {0, 8, 23, 200}}

\* Resident attributes whose content_len (bytes 16..19) or content_offset
\* (bytes 20..21) leads past attr_len.
ResidentBadContent ==
    {SetBytes(MkResident(16, nm, <<7, 9>>), 16, LEBytes(9, 4)) : nm \in {<<>>, NameA}}
    \cup {SetBytes(MkResident(16, nm, <<7, 9>>), 20, LEBytes(100, 2)) : nm \in {<<>>, NameA}}

ResidentHeaderBufs ==
    ResidentBufs \cup ResidentTypeBufs \cup ResidentBadLen \cup ResidentBadContent

\* Non-resident attributes: well formed, of unknown type, cut short, and
\* with an attr_len smaller than the header or larger than the buffer.
NonResidentBufs ==
    {MkNonResident(ty, nm, <<17, 4, 100, 0>>) :
        ty \in {0, 5, 128, 65552}, nm \in {<<>>, NameA}}
    \cup {SetBytes(MkNonResident(128, nm, <<17, 4, 100, 0>>), 4, LEBytes(v, 4)) :
             nm \in {<<>>, NameA}, v \in {0, 8, 63, 200}}
    \cup {SubSeq(MkNonResident(128, NameA, <<0>>), 1, k) : k \in {0, 9, 16, 63, 64, 65, 66}}

\* The fixed fields and the path buffer of a junction (extra = <<>>) or of a
\* symbolic link (extra = its 4 bytes of flags): q = <<target, print,
\* target_first>>, the two names lying in the path buffer in either order.
MkLinkBody(q, extra) ==
    LET target == q[1]
        print == q[2]
        ot == IF q[3] THEN 0 ELSE Len(print)
        op == IF q[3] THEN Len(target) ELSE 0
    IN  LEBytes(ot, 2) \o LEBytes(Len(target), 2) \o LEBytes(op, 2) \o LEBytes(Len(print), 2)
        \o extra \o (IF q[3] THEN target \o print ELSE print \o target)

\* <<target name, print name, target first>> of the links.
LinkParams == {NameA, NameAB} \X {<<>>, <<67, 0>>, <<67, 0, 68, 0, 69, 0>>} \X BOOLEAN

SymLinkFlagBytes == <<1, 0, 0, 0>>

\* A reparse point: the tag (type in its two low bytes, flags in its top four
\* bits, `reserved` in the bits between), the data length, the padding, the rest.
MkReparse(type, flags, reserved, rest) ==
    LEBytes(type, 2) \o <<reserved, flags * 16 + (reserved % 16)>>
    \o LEBytes(Len(rest), 2) \o <<0, 0>> \o rest

GuidBytes == <<1, 2, 3, 4, 5, 6, 7, 8, 9, 10, 11, 12, 13, 14, 15, 16>>

\* <<type, flags, reserved>> of the tags with the Microsoft flag.
SymLinkTags == {SYMLINK} \X {8, 10} \X {0, 255}
MountTags == {MOUNT_POINT} \X {8, 9} \X {0, 255}

SymLinkBufs ==
    {MkReparse(t[1], t[2], t[3], MkLinkBody(q, SymLinkFlagBytes)) :
        t \in SymLinkTags, q \in LinkParams}
MountBufs ==
    {MkReparse(t[1], t[2], t[3], MkLinkBody(q, <<>>)) : t \in MountTags, q \in LinkParams}

\* Microsoft tags of the other types, of a code that is no type, third-party
\* tags with and without their 16 bytes of GUID, and cut buffers.
ReparsePointBufs ==
    SymLinkBufs \cup MountBufs
    \cup {MkReparse(ty, fl, 0, rest) :
            ty \in (ReparseTypeCodes \ {SYMLINK, MOUNT_POINT}) \cup {5}, fl \in {8, 12},
            rest \in {<<>>, <<1, 2, 3>>, MkLinkBody(<<NameA, <<67, 0>>, TRUE>>, <<>>)}}
    \cup {MkReparse(ty, fl, rs, rest) :
            ty \in {SYMLINK, MOUNT_POINT, 4}, fl \in {0, 2, 7}, rs \in {0, 255},
            rest \in {GuidBytes, GuidBytes \o <<7, 7>>, SubSeq(GuidBytes, 1, 10),
                      MkLinkBody(<<NameAB, <<67, 0>>, TRUE>>, SymLinkFlagBytes)}}
    \cup Prefixes(MkReparse(SYMLINK, 8, 0, MkLinkBody(<<NameA, <<67, 0>>, FALSE>>, SymLinkFlagBytes)))
    \cup {MkReparse(SYMLINK, 8, 0, MkLinkBody(<<NameA, <<>>, TRUE>>, <<>>)),
          MkReparse(MOUNT_POINT, 8, 0, MkLinkBody(<<NameA, <<67>>, TRUE>>, <<>>))}

\* Bitmaps of up to two bytes, and one whose first clear bit is in its third.
BitmapBytes == {0, 1, 5, 127, 128, 251, 254, 255}
BitmapBufs == SeqsUpTo(BitmapBytes, 2) \cup {<<255, 255, 251>>}

\* The 16 bytes of a GUID that start at byte value n.
RECURSIVE Counting(_, _)
Counting(n, k) == IF k = 0 THEN <<>> ELSE <<n>> \o Counting(n + 1, k - 1)

\* Most GUIDs in a buffer: one more than an ObjectID has fields.
MaxGuids == 5
GuidStarts == {0, 1, 100}

\* Buffers of k GUIDs, the GUID of all zeros among them, and cut buffers.
ObjectIDGuids ==
    UNION {[1..k -> {Counting(n, 16) : n \in GuidStarts} \cup {Zeros(16)}] : k \in 0..2}
    \cup {[i \in 1..k |-> Counting(16 * i, 16)] : k \in 3..MaxGuids}
ObjectIDBufs ==
    {Concat(g) : g \in ObjectIDGuids}
    \cup Prefixes(Concat([i \in 1..4 |-> Counting(16 * i, 16)]))

\* File names of 0, 1 and 2 characters and one of a surrogate pair, and cuts.
FileNameBufs ==
    {MkFileName(n) : n \in {<<>>, NameA, NameAB, <<61, 216, 0, 220>>}}
    \cup Prefixes(MkFileName(NameA))

\* Headers whose name lies elsewhere than right after the fixed header:
\* after the content or the run list, or over the header's own first bytes;
\* and headers of name_len 0 whose name_offset leads to a name.
RelocatedName(b, name_len, name_offset) ==
    SetBytes(b, 9, <<name_len>> \o LEBytes(name_offset, 2))

ResidentRelocated ==
    {RelocatedName(MkResident(16, <<>>, <<7, 9>> \o NameAB), nl, no) :
        nl \in {0, 1, 2}, no \in {0, 24, 26}}
NonResidentRelocated ==
    {RelocatedName(MkNonResident(128, <<>>, <<17, 4, 100, 0>> \o NameAB), nl, no) :
        nl \in {0, 1, 2}, no \in {0, 64, 68}}

ContentInputs ==
    ({"ResidentAttrHeader"} \X ResidentHeaderBufs)
    \cup ({"ResidentAttrHeader", "BaseAttributeHeader"} \X ResidentRelocated)
    \cup ({"NonResidentAttrHeader", "BaseAttributeHeader"} \X NonResidentRelocated)
    \cup ({"FileName"} \X FileNameBufs)
    \cup ({"ObjectID"} \X ObjectIDBufs)
    \cup ({"Bitmap"} \X BitmapBufs)
    \cup ({"ReparsePoint"} \X ReparsePointBufs)
    \cup ({"BaseAttributeHeader"} \X ResidentHeaderBufs)
    \cup ({"get_attr_info"} \X
            (ResidentTypeBufs \cup Prefixes(SubSeq(MkResident(16, <<>>, <<>>), 1, 10))
             \cup Prefixes(SubSeq(MkResident(5, <<>>, <<>>), 1, 10))))
    \cup ({"NonResidentAttrHeader"} \X NonResidentBufs)
    \cup ({"ACE"} \X ACEBufs)
    \cup ({"SecurityDescriptor"} \X SecDescBufs)
    \cup ({"SID"} \X SIDBufs)
    \cup ({"Timestamps"} \X TimestampsBufs)
    \cup ({"StandardInformation"} \X StdInfoBufs)
    \cup ({"AttributeListEntry"} \X AttrListEntryBufs)
    \cup ({"IndexEntry"} \X IndexEntryBufs)
    \cup ({"EaEntry"} \X EaEntryBufs)
    \cup ({"AttributeList"} \X AttrListBufs)
    \cup ({"Ea"} \X EaBufs)
    \cup ({"ACL"} \X ACLBufs)
    \cup ({"IndexRoot"} \X IndexRootBufs)

(***************************************************************************)
(* Specification of the content decoders: one decode of one buffer.        *)
(***************************************************************************)
InitContent ==
    /\ heap = [r \in {DefaultList} |-> <<>>]
    /\ th = [t \in Callers |-> IdleFrame]
    /\ returned = {}
    /\ ncalls = 0
    /\ \E in \in ContentInputs :
          /\ decoder = in[1]
          /\ binary_stream = in[2]
    /\ pc = "start"
    /\ offset = 0
    /\ entries = <<>>
    /\ result = Ok(<<>>)

NextContent ==
    \/ DecodeOneShot
    \/ SIDStr
    \/ ContentLen
    \/ BitmapEntryAllocated
    \/ BitmapGetNextEmpty
    \/ BitmapAllocatedEntries
    \/ BitmapNext
    \/ AttrListStart
    \/ AttrListStep
    \/ EaStart
    \/ EaStep
    \/ ACLStart
    \/ ACLStep
    \/ IndexRootStart
    \/ IndexRootStep

SpecContent == InitContent /\ [][NextContent]_vars

\* One buffer decoded twice by a decoder without a loop, and the two records
\* compared.
InitTwice ==
    /\ heap = [r \in {DefaultList} |-> <<>>]
    /\ th = [t \in Callers |-> IdleFrame]
    /\ returned = {}
    /\ ncalls = 0
    /\ \E in \in {i \in ContentInputs : i[1] \in OneShot} :
          /\ decoder = in[1]
          /\ binary_stream = in[2]
    /\ pc = "start"
    /\ offset = 0
    /\ entries = <<>>
    /\ result = Ok(<<>>)

NextTwice ==
    \E again \in BOOLEAN : DecodeTwice(again)

SpecTwice == InitTwice /\ [][NextTwice]_vars

(***************************************************************************)
(* Specification of the list decoders alone, for their termination: a      *)
(* decode runs synchronously, so a step that can be taken is taken.        *)
(***************************************************************************)
ListInputs ==
    ({"AttributeList"} \X AttrListBufs)
    \cup ({"Ea"} \X EaBufs)
    \cup ({"IndexRoot"} \X
            ({MkIndexRoot(0, 0, gap, Concat(l)) :
                 gap \in {0, 8}, l \in ListsUpTo(IndexRootEntries, 2)}
             \cup IndexRootZeroLen))

InitLists ==
    /\ heap = [r \in {DefaultList} |-> <<>>]
    /\ th = [t \in Callers |-> IdleFrame]
    /\ returned = {}
    /\ ncalls = 0
    /\ \E in \in ListInputs :
          /\ decoder = in[1]
          /\ binary_stream = in[2]
    /\ pc = "start"
    /\ offset = 0
    /\ entries = <<>>
    /\ result = Ok(<<>>)

NextLists ==
    \/ AttrListStart
    \/ AttrListStep
    \/ EaStart
    \/ EaStep
    \/ IndexRootStart
    \/ IndexRootStep

SpecLists == InitLists /\ [][NextLists]_vars /\ WF_vars(NextLists)

(***************************************************************************)
(* Claims about the run-list decoders.                                     *)
(***************************************************************************)
\* The run-list bytes a frame's DataRuns decode was given.
OwnRuns(f) == EncodedRuns(f.binary_view)

\* The call of frame f is the latest one, so nothing ran since it ended.
Latest(f) == f.id = ncalls

\* C1: after any sequence of earlier decode calls, DataRuns.create_from_binary
\* returns exactly the runs its buffer encodes before the terminator, in
\* order; a buffer that starts with the terminator yields zero runs.
C1_DecodeReturnsOwnRuns ==
    \A t \in Callers :
        (th[t].pc = "returned" /\ th[t].via = "DataRuns" /\ Latest(th[t]))
        => /\ HeldRuns(th[t].ret[1]) = Some(EncodedRuns(th[t].arg))
           /\ (th[t].arg[1] = 0 => HeldRuns(th[t].ret[1]) = Some(<<>>))

\* C2: two decodes that overlap in time on independent buffers each return
\* exactly the runs of their own buffer: when a decode returns its run list
\* while another decode is still in its loop, the list holds its own runs.
C2_ConcurrentDecodesIndependent ==
    [][\A t \in Callers, u \in Callers :
          (th[t].pc = "loop" /\ th[t].pc' = "returned" /\ u # t /\ th[u].pc = "loop")
          => HeldRuns(th[t].ret[1])' = Some(OwnRuns(th[t]))]_vars

\* C3: the run sequence held by an object that a decode has returned is not
\* changed by any later step of any decode.
C3_ReturnedRunsNeverChange ==
    [][\A o \in returned : HeldRuns(o)' = HeldRuns(o)]_vars

\* C4: decoding a well-formed run list yields, for each header byte h # 0,
\* the unsigned little-endian length of the next h & 0x0F bytes and the
\* previous absolute offset plus the signed value of the following h >> 4
\* bytes, and stops at the first 0 header; 11 04 64 00 yields exactly (4, 100).
C4_WellFormedRunListDecoded ==
    \A t \in Callers :
        (th[t].pc = "returned" /\ Latest(th[t]) /\ HeldRuns(th[t].ret[1]) # None
            /\ WellFormedRunList(th[t].binary_view))
        => /\ HeldRuns(th[t].ret[1]) = Some(OwnRuns(th[t]))
           /\ (th[t].arg = <<17, 4, 100, 0>>
                 => HeldRuns(th[t].ret[1]) = Some(<<(<<4, Some(100)>>)>>))

\* C5: a decode whose buffer declares a field past its end fails and returns
\* no run list, and no decode ever returns a run built from fewer bytes than
\* its header declares: a decode that follows such a failure returns only
\* the runs of its own buffer.
C5_NoRunFromTruncatedField ==
    \A t \in Callers, u \in Callers :
        (th[t].pc = "raised" /\ th[t].via = "DataRuns" /\ FieldOverrun(th[t].arg)
            /\ th[u].pc = "returned" /\ th[u].via = "DataRuns" /\ th[u].id > th[t].id
            /\ Latest(th[u]))
        => \A i \in 1..Len(HeldRuns(th[u].ret[1])[1]) :
              \E j \in 1..Len(OwnRuns(th[u])) :
                  HeldRuns(th[u].ret[1])[1][i] = OwnRuns(th[u])[j]

\* What the code does on such a buffer: the read of the next header byte,
\* past the end, raises IndexError.
OverrunRaisesIndexError ==
    \A t \in Callers :
        (NotRunning(t) /\ th[t].via = "DataRuns" /\ FieldOverrun(th[t].arg))
        => (th[t].pc = "raised" /\ th[t].error = "IndexError")

(***************************************************************************)
(* Claims about the content decoders.                                      *)
(***************************************************************************)
\* The name, content or value of the record a one-shot decoder returned has
\* the length the structure's own fields declare.
DeclaredComplete ==
    IF decoder = "ResidentAttrHeader"
    THEN binary_stream[10] # 0
            => Len(result.val.attr_name[1]) = binary_stream[10]
    ELSE IF decoder = "AttributeListEntry"
    THEN binary_stream[7] # 0
            => Len(result.val.name[1]) = binary_stream[7]
    ELSE IF decoder = "IndexEntry"
    THEN Len(result.val.content) = FromBytesLE(SubSeq(binary_stream, 11, 12))
    ELSE /\ Len(result.val.name) = binary_stream[6]
         /\ Len(result.val.value) = FromBytesLE(SubSeq(binary_stream, 7, 8))

\* C6: decoding a prefix that cuts off bytes the decoder reads never returns
\* a record whose name, content or value was built from fewer bytes than the
\* structure declares.
C6_NoRecordFromFewerBytes ==
    (decoder \in VariablePart /\ pc = "returned") => DeclaredComplete

\* What the code does instead of a typed truncation error: the failures of
\* the one-shot decoders are struct.error, UnicodeDecodeError and the
\* ValueError of an unknown attribute type.
OneShotErrorsAreBuiltin ==
    (decoder \in VariablePart /\ pc = "raised")
    => result.exc \in {"struct.error", "UnicodeDecodeError", "ValueError"}

\* The buffer of the entries described by l, one after the other.
AttrListOf(l) == Concat([i \in 1..Len(l) |-> MkAttrListEntry(l[i][1], l[i][2], l[i][3])])

\* The sum of the lengths the first k entries of l declare.
RECURSIVE DeclaredSum(_, _)
DeclaredSum(l, k) ==
    IF k = 0 THEN 0
    ELSE DeclaredSum(l, k - 1) + AttrListEntryReprSize + Len(l[k][2]) + l[k][3]

\* The record of the entry described by e.
ExpectedEntry(e) ==
    [attr_type |-> e[1],
     entry_len |-> AttrListEntryReprSize + Len(e[2]) + e[3],
     name_offset |-> AttrListEntryReprSize,
     start_vcn |-> 0,
     file_ref |-> 5,
     file_seq |-> 1,
     attr_id |-> 2,
     name |-> IF e[2] = <<>> THEN None ELSE Some(Utf16Units(e[2]))]

\* C7: decoding a buffer that is exactly N concatenated entries, each
\* declaring its own length, never fails, reads entry i at the sum of the
\* declared lengths of the entries before it, and returns exactly the N
\* entries in buffer order.
C7_AttrListExactEntries ==
    \A l \in ListsUpTo(AttrListParams, MaxEntries) :
        (decoder = "AttributeList" /\ binary_stream = AttrListOf(l))
        => /\ pc # "raised"
           /\ pc = "loop"
                => /\ Len(entries) < Len(l)
                   /\ offset = DeclaredSum(l, Len(entries))
                   /\ \A i \in 1..Len(entries) : entries[i] = ExpectedEntry(l[i])
           /\ pc = "returned"
                => result.val = [i \in 1..Len(l) |-> ExpectedEntry(l[i])]

C7_Witness ==
    /\ decoder = "AttributeList"
    /\ pc = "returned"
    /\ binary_stream \in AttrListFull
    /\ Len(result.val) >= 2
    /\ result.val[1].entry_len # result.val[2].entry_len

\* C8: decoding a buffer that is one byte short of its last entry's declared
\* length does not return a list.
C8_OneByteShortNeverReturns ==
    (decoder = "AttributeList"
        /\ \E b \in AttrListFull : binary_stream = SubSeq(b, 1, Len(b) - 1))
    => pc # "returned"

\* What the code does on the other one-byte-short lists: the failure is
\* struct.error or UnicodeDecodeError.
OneByteShortErrorsAreBuiltin ==
    (decoder = "AttributeList" /\ pc = "raised")
    => result.exc \in {"struct.error", "UnicodeDecodeError"}

\* The start of the i-th ACE: 8 plus the sizes the ACE headers before it
\* declare (bytes 2..3 of each header).
RECURSIVE ACEStart(_, _)
ACEStart(bs, i) ==
    IF i = 1 THEN ACLReprSize
    ELSE LET p == ACEStart(bs, i - 1) IN p + FromBytesLE(Slice(bs, p + 2, p + 4))

\* C9: the ACL decode reads the i-th ACE at 8 plus the declared sizes of the
\* ACEs before it, returns only with exactly ace_count ACEs, every one of
\* them decoded at its start, and fails with the failure of the first of the
\* ace_count ACEs that cannot be decoded, whatever bytes remain.
C9_ACLCountDriven ==
    (decoder = "ACL" /\ Len(binary_stream) >= ACLReprSize)
    => LET ace_count == FromBytesLE(Slice(binary_stream, 4, 6))
           DecodedAt(i) ==
               ACE_create_from_binary(SliceFrom(binary_stream, ACEStart(binary_stream, i)))
       IN  /\ pc = "loop"
                => /\ Len(entries) < ace_count
                   /\ offset = ACEStart(binary_stream, Len(entries) + 1)
                   /\ \A i \in 1..Len(entries) : DecodedAt(i) = Ok(entries[i])
           /\ pc = "returned"
                => /\ Len(result.val.aces) = ace_count
                   /\ \A i \in 1..ace_count : DecodedAt(i) = Ok(result.val.aces[i])
           /\ pc = "raised"
                => \E i \in 1..ace_count :
                      /\ DecodedAt(i).exc # "none"
                      /\ result = DecodedAt(i)
                      /\ \A j \in 1..(i - 1) : DecodedAt(j).exc = "none"

C9_Witness ==
    /\ decoder = "ACL"
    /\ pc = "returned"
    /\ Len(result.val.aces) = 2
    /\ offset < Len(binary_stream)

\* The start of the i-th index entry: 16 plus the node header's start offset
\* (bytes 16..19), plus the lengths the entries before it declare (bytes 8..9
\* of each entry).
RECURSIVE IndexEntryStart(_, _)
IndexEntryStart(bs, i) ==
    IF i = 1 THEN IndexRootReprSize + FromBytesLE(Slice(bs, 16, 20))
    ELSE LET p == IndexEntryStart(bs, i - 1) IN p + FromBytesLE(Slice(bs, p + 8, p + 10))

\* The last-entry bit of the flags field (bytes 12..15) of the entry at p.
LastEntryBitAt(bs, p) == (bs[p + 13] \div 2) % 2 = 1

\* C10: the INDEX_ROOT decode reads entry i at 16 + start_offset plus the
\* declared lengths of the entries before it, goes on while the entries lack
\* the last-entry bit, and returns a list whose final element is its only
\* element with the last-entry bit set.
C10_IndexRootSentinelDriven ==
    decoder = "IndexRoot"
    => /\ pc = "loop"
            => /\ offset = IndexEntryStart(binary_stream, Len(entries) + 1)
               /\ \A i \in 1..Len(entries) :
                     /\ ~LastEntryBitAt(binary_stream, IndexEntryStart(binary_stream, i))
                     /\ ~HasFlag(entries[i].flags, LAST_ENTRY)
       /\ pc = "returned"
            => LET l == result.val.index_entry_list
                   n == Len(l)
               IN  /\ n >= 1
                   /\ HasFlag(l[n].flags, LAST_ENTRY)
                   /\ \A i \in 1..n :
                         /\ LastEntryBitAt(binary_stream, IndexEntryStart(binary_stream, i))
                               <=> (i = n)
                         /\ HasFlag(l[i].flags, LAST_ENTRY) <=> (i = n)
                         /\ Ok(l[i]) = IndexEntry_create_from_binary(
                                          SliceFrom(binary_stream,
                                                    IndexEntryStart(binary_stream, i)),
                                          result.val.attr_type)

C10_Witness ==
    /\ decoder = "IndexRoot"
    /\ pc = "returned"
    /\ Len(result.val.index_entry_list) >= 2
    /\ result.val.node_header.start_offset > IndexNodeHeaderReprSize

\* The decoders whose loop runs over a list of variable-length entries.
ListDecoders == {"AttributeList", "Ea", "IndexRoot"}

SamePassAgain ==
    IF decoder = "AttributeList"
    THEN LET e == AttributeListEntry_create_from_binary(SliceFrom(binary_stream, offset))
         IN  e.exc = "none" /\ e.val.entry_len = 0 /\ offset < Len(binary_stream)
    ELSE IF decoder = "Ea"
    THEN LET e == EaEntry_create_from_binary(SliceFrom(binary_stream, offset))
         IN  e.exc = "none" /\ e.val.offset_next_ea = 0 /\ offset < Len(binary_stream)
    ELSE LET e == IndexEntry_create_from_binary(SliceFrom(binary_stream, offset),
                                                IndexRootHeader(binary_stream).val.attr_type)
         IN  e.exc = "none" /\ e.val.entry_len = 0 /\ ~IsLastEntry(e.val)

\* The decodes that are still in their loop after MaxPasses passes are the
\* ones that repeat the same pass for ever; all others have completed.
UnfinishedLoopRepeatsItself ==
    (decoder \in ListDecoders /\ pc = "loop" /\ Len(entries) = MaxPasses) => SamePassAgain

\* The record of the STANDARD_INFORMATION built from q.
ExpectedStdInfo(q) ==
    [timestamps |-> <<convert_filetime(q[1][1]), convert_filetime(q[1][2]),
                      convert_filetime(q[1][3]), convert_filetime(q[1][4])>>,
     flags |-> q[2],
     max_n_versions |-> q[3][1],
     version_number |-> q[3][2],
     class_id |-> q[3][3],
     owner_id |-> IF q[4] = <<>> THEN None ELSE Some(q[4][1]),
     security_id |-> IF q[4] = <<>> THEN None ELSE Some(q[4][2]),
     quota_charged |-> IF q[4] = <<>> THEN None ELSE Some(q[4][3]),
     usn |-> IF q[4] = <<>> THEN None ELSE Some(q[4][4])]

\* C12: a 72-byte STANDARD_INFORMATION decodes with all nine fields
\* populated, a 48-byte one with the first five populated and owner_id,
\* security_id, quota_charged and usn absent, which differs from the record
\* of the 72-byte buffer whose last four fields are zero.
C12_StdInfoTwoShapes ==
    \A q \in StdInfoParams :
        (decoder = "StandardInformation" /\ pc # "start"
            /\ binary_stream = MkStdInfo(q[1], q[2], q[3], q[4]))
        => /\ Len(binary_stream) = IF q[4] = <<>> THEN 48 ELSE 72
           /\ pc = "returned"
           /\ result.val = ExpectedStdInfo(q)
           /\ (Len(binary_stream) = 72
                 => /\ None \notin {result.val.owner_id, result.val.security_id,
                                    result.val.quota_charged, result.val.usn}
                    /\ result.val # ExpectedStdInfo(<<q[1], q[2], q[3], <<>> >>))
           /\ (Len(binary_stream) = 48
                 => {result.val.owner_id, result.val.security_id,
                     result.val.quota_charged, result.val.usn} = {None})

C12_Witness ==
    /\ decoder = "StandardInformation"
    /\ pc = "returned"
    /\ Len(binary_stream) = 48
    /\ result.val.class_id = 3
    /\ result.val.usn = None

\* The buffer does not have a size the fixed-layout decoder accepts.
UnexpectedSize ==
    \/ decoder = "Timestamps" /\ Len(binary_stream) # 32
    \/ decoder = "StandardInformation" /\ Len(binary_stream) \notin {48, 72}

\* C13: Timestamps given a buffer that is not 32 bytes long, and
\* StandardInformation given one that is neither 48 nor 72 bytes long, fail
\* with ContentError and return no record.
C13_UnexpectedSizeIsContentError ==
    (UnexpectedSize /\ pc # "start")
    => (pc = "raised" /\ result.exc = "ContentError")

\* What the code does: no record is returned for such a buffer; Timestamps
\* fails with ContentError, StandardInformation with the struct.error of the
\* 48-byte unpack.
UnexpectedSizeErrors ==
    (UnexpectedSize /\ pc # "start")
    => /\ pc = "raised"
       /\ result.exc = IF decoder = "Timestamps" THEN "ContentError" ELSE "struct.error"

\* The attr_len field of the buffer (bytes 4..7).
DeclaredAttrLen == FromBytesLE(SubSeq(binary_stream, 5, 8))

\* The fixed size of the header the decoder reads.
FixedHeaderSize ==
    IF decoder = "ResidentAttrHeader" THEN ResidentReprSize ELSE NonResidentReprSize

\* C14: ResidentAttrHeader and NonResidentAttrHeader fail with HeaderError,
\* and return no header, when the declared attr_len is smaller than the fixed
\* header size or larger than the bytes of the buffer.
C14_BadAttrLenIsHeaderError ==
    (decoder \in {"ResidentAttrHeader", "NonResidentAttrHeader"}
        /\ pc # "start"
        /\ Len(binary_stream) >= 8
        /\ (DeclaredAttrLen < FixedHeaderSize \/ DeclaredAttrLen > Len(binary_stream)))
    => (pc = "raised" /\ result.exc = "HeaderError")

\* What the code does: no decoder ever fails with HeaderError.
NeverHeaderError == result.exc # "HeaderError"

\* C15: every ResidentAttrHeader a decode returns satisfies
\* content_offset + content_len <= attr_len.
C15_ResidentContentInsideAttr ==
    (decoder = "ResidentAttrHeader" /\ pc = "returned")
    => result.val.content_offset + result.val.content_len <= result.val.attr_len

\* The type code of the buffer (bytes 0..3).
TypeCode == FromBytesLE(SubSeq(binary_stream, 1, 4))

\* The decoders that read an attribute type code at the start of the buffer.
TypeAtStart == HeaderDecoders \cup {"AttributeListEntry"}

\* C16: get_attr_info, the three header decoders and AttributeListEntry
\* return no record for a buffer whose type code is outside the closed set
\* of known codes, and every record they return carries the known code of
\* its buffer.
C16_UnknownTypeIsHardError ==
    (decoder \in TypeAtStart /\ pc # "start")
    => /\ (Len(binary_stream) >= 4 /\ TypeCode \notin AttrTypeCodes) => pc = "raised"
       /\ pc = "returned"
            => LET ty == IF decoder = "get_attr_info" THEN result.val[1]
                         ELSE IF decoder = "AttributeListEntry" THEN result.val.attr_type
                         ELSE result.val.attr_type_id
               IN  ty \in AttrTypeCodes /\ ty = TypeCode

C16_Witness ==
    /\ decoder = "get_attr_info"
    /\ pc = "raised"
    /\ Len(binary_stream) >= 4
    /\ TypeCode = 65552
    /\ result.exc = "ValueError"

\* C17: decoding an ACE whose header type is a COMPOUND type ends with the
\* distinct outcome UnsupportedVariantError, not with an ACE record, and no
\* ACL decode returns a list that holds such an ACE.
C17_CompoundIsUnsupported ==
    /\ (decoder = "ACE" /\ pc # "start" /\ Len(binary_stream) >= 4
            /\ binary_stream[1] \in CompoundACETypes)
       => (pc = "raised" /\ result.exc = "UnsupportedVariantError")
    /\ (decoder = "ACL" /\ pc = "returned")
       => \A i \in 1..Len(result.val.aces) :
             result.val.aces[i].header.type \notin CompoundACETypes

\* What the code does: a COMPOUND ACE with a whole header decodes to an ACE
\* with the header alone, whatever follows the header.
CompoundDecodesToBareHeader ==
    (decoder = "ACE" /\ pc # "start" /\ Len(binary_stream) >= 4
        /\ binary_stream[1] \in CompoundACETypes)
    => /\ pc = "returned"
       /\ result.val.basic_ace = None
       /\ result.val.object_ace = None

\* C18: an ACE of an OBJECT type decodes to an ACE whose object_ace holds
\* the trailing SID read at body offset 40 and whose basic_ace is absent; an
\* ACE of any other type that is not COMPOUND decodes to an ACE whose
\* basic_ace holds the access rights and the trailing SID read at body
\* offset 4 and whose object_ace is absent.
C18_ACEBodyDispatch ==
    /\ \A q \in ObjectACEParams :
          (decoder = "ACE" /\ pc # "start" /\ binary_stream = MkObjectACE(q))
          => /\ pc = "returned"
             /\ result.val.basic_ace = None
             /\ result.val.object_ace # None
             /\ result.val.object_ace[1].sid.sub_authorities = q[2]
    /\ \A q \in BasicACEParams :
          (decoder = "ACE" /\ pc # "start" /\ binary_stream = MkBasicACE(q))
          => /\ pc = "returned"
             /\ result.val.object_ace = None
             /\ result.val.basic_ace # None
             /\ result.val.basic_ace[1].access_rights_flags = 2032127
             /\ result.val.basic_ace[1].SID.sub_authorities = q[2]

\* What the code does: the basic half of the dispatch is as claimed, and a
\* well-formed OBJECT ACE never decodes: it fails with ValueError.
ObjectACEFailsBasicDecodes ==
    /\ \A q \in ObjectACEParams :
          (decoder = "ACE" /\ pc # "start" /\ binary_stream = MkObjectACE(q))
          => (pc = "raised" /\ result.exc = "ValueError")
    /\ \A q \in BasicACEParams :
          (decoder = "ACE" /\ pc # "start" /\ binary_stream = MkBasicACE(q))
          => /\ pc = "returned"
             /\ result.val.object_ace = None
             /\ result.val.basic_ace # None
             /\ result.val.basic_ace[1].access_rights_flags = 2032127
             /\ result.val.basic_ace[1].SID.sub_authorities = q[2]

\* The four offsets of the descriptor's header, read from its bytes.
OwnerOffset == FromBytesLE(SubSeq(binary_stream, 5, 8))
GroupOffset == FromBytesLE(SubSeq(binary_stream, 9, 12))
DaclOffset == FromBytesLE(SubSeq(binary_stream, 13, 16))
SaclOffset == FromBytesLE(SubSeq(binary_stream, 17, 20))

\* C19: a returned SecurityDescriptor holds the owner SID and the group SID
\* read at their header offsets from the descriptor's start, a dacl iff
\* dacl_offset # 0 and a sacl iff sacl_offset # 0, the dacl being the ACL at
\* dacl_offset and the sacl the ACL at sacl_offset; a descriptor built from
\* given SIDs and ACLs decodes to these, wherever they lie.
C19_SecDescOffsetsAndPresence ==
    /\ (decoder = "SecurityDescriptor" /\ pc = "returned")
       => /\ Ok(result.val.owner_sid)
                = SID_create_from_binary(SliceFrom(binary_stream, OwnerOffset))
          /\ Ok(result.val.group_sid)
                = SID_create_from_binary(SliceFrom(binary_stream, GroupOffset))
          /\ (result.val.dacl # None) <=> (DaclOffset # 0)
          /\ (result.val.sacl # None) <=> (SaclOffset # 0)
          /\ DaclOffset # 0
                => Ok(result.val.dacl[1])
                      = ACL_create_from_binary(SliceFrom(binary_stream, DaclOffset))
          /\ SaclOffset # 0
                => Ok(result.val.sacl[1])
                      = ACL_create_from_binary(SliceFrom(binary_stream, SaclOffset))
    /\ \A q \in SecDescParams :
          (decoder = "SecurityDescriptor" /\ pc # "start"
              /\ binary_stream = MkSecDesc(q[1], q[2], q[3], q[4], q[5]))
          => /\ pc = "returned"
             /\ result.val.owner_sid.sub_authorities = q[1]
             /\ result.val.group_sid.sub_authorities = q[2]
             /\ result.val.dacl
                   = IF q[3] = <<>> THEN None ELSE Some(ACL_create_from_binary(q[3]).val)
             /\ result.val.sacl
                   = IF q[4] = <<>> THEN None ELSE Some(ACL_create_from_binary(q[4]).val)

C19_Witness ==
    /\ decoder = "SecurityDescriptor"
    /\ pc = "returned"
    /\ SaclOffset # 0
    /\ DaclOffset > SaclOffset
    /\ OwnerOffset > DaclOffset
    /\ result.val.dacl # None
    /\ result.val.sacl # None
    /\ result.val.dacl[1].aces # <<>>
    /\ result.val.sacl[1].aces # <<>>
    /\ result.val.dacl[1].aces[1].header.type = 0
    /\ result.val.sacl[1].aces[1].header.type = 2

\* The ACL decode made in steps returns what the ACL decode made as one call
\* returns.
ACLStepsAgreeWithCall ==
    (decoder = "ACL" /\ pc \in {"returned", "raised"})
    => result = ACL_create_from_binary(binary_stream)

\* 'S-' revision '-' authority, then '-' sub for each sub-authority.
RECURSIVE DashEach(_)
DashEach(subs) == IF subs = <<>> THEN <<>> ELSE <<45>> \o Str(subs[1]) \o DashEach(Tail(subs))

CanonicalSIDString(rev, auth, subs) ==
    <<83, 45>> \o Str(rev) \o <<45>> \o Str(auth) \o DashEach(subs)

\* C20: a SID decoded from revision, sub_count, the 6-byte big-endian
\* authority and sub_count little-endian 32-bit values holds exactly these
\* sub-authorities in order, and its string form is 'S-' revision '-'
\* authority followed by '-' sub for each sub-authority.
C20_SIDDecodeAndString ==
    \A q \in SIDParams :
        (decoder = "SID" /\ pc # "start" /\ binary_stream = MkSIDOf(q))
        => /\ pc = "returned"
                => result.val = [revision_number |-> q[1], authority |-> q[2],
                                 sub_authorities |-> q[3]]
           /\ pc = "printed"
                => /\ result.val.sid.sub_authorities = q[3]
                   /\ result.val.str = CanonicalSIDString(q[1], q[2], q[3])

\* What the code does: the decode is as claimed, and the string form is the
\* claimed one when there is a sub-authority; without one it ends in '-'.
SIDStringWithTrailingDash ==
    \A q \in SIDParams :
        (decoder = "SID" /\ pc # "start" /\ binary_stream = MkSIDOf(q))
        => /\ pc \in {"returned", "printed", "len"}
           /\ pc = "returned"
                => result.val = [revision_number |-> q[1], authority |-> q[2],
                                 sub_authorities |-> q[3]]
           /\ pc = "printed"
                => result.val.str =
                      IF q[3] = <<>>
                      THEN CanonicalSIDString(q[1], q[2], q[3]) \o <<45>>
                      ELSE CanonicalSIDString(q[1], q[2], q[3])

\* The type and the flags of the tag the buffer starts with.
TagType == FromBytesLE(SubSeq(binary_stream, 1, 2))
TagFlags == binary_stream[4] \div 16
AfterFixedHeader == SliceFrom(binary_stream, 8)

RECURSIVE SumPow2(_)
SumPow2(S) == IF S = {} THEN 0 ELSE LET k == CHOOSE k \in S : TRUE
                                    IN  Pow2(k) + SumPow2(S \ {k})
BitsOf == [b \in BitmapBytes |-> CHOOSE S \in SUBSET (0..7) : SumPow2(S) = b]

\* The indices n < 8 * len whose bit (n mod 8) of byte (n div 8) is 1.
AllocatedSet ==
    {n \in 0..(8 * Len(binary_stream) - 1) : (n % 8) \in BitsOf[binary_stream[(n \div 8) + 1]]}

StrictlyIncreasing(l) == \A i \in 1..(Len(l) - 1) : l[i] < l[i + 1]

\* C22: on a decoded Bitmap entry_allocated(n) is true iff bit (n mod 8) of
\* byte (n div 8) is 1; when some bit is 0, get_next_empty returns the
\* smallest index whose bit is 0; allocated_entries yields in increasing
\* order, each once, the indices n < 8 * len whose bit is 1, and the same
\* sequence on every call.
C22_BitmapQueries ==
    decoder = "Bitmap"
    => /\ (pc = "entry_allocated" /\ offset < 8 * Len(binary_stream))
            => result = Ok(offset \in AllocatedSet)
       /\ (pc = "get_next_empty" /\ AllocatedSet # 0..(8 * Len(binary_stream) - 1))
            => /\ result.val # None
               /\ result.val[1] \in 0..(8 * Len(binary_stream) - 1)
               /\ result.val[1] \notin AllocatedSet
               /\ \A m \in 0..(result.val[1] - 1) : m \in AllocatedSet
       /\ pc \in {"generator", "exhausted"}
            => /\ StrictlyIncreasing(entries)
               /\ \A i \in 1..Len(entries) : entries[i] \in AllocatedSet
               /\ \A i \in 1..Len(result.val.yielded) :
                      result.val.yielded[i] = result.val.yielded[1]
       /\ pc = "exhausted" => {entries[i] : i \in 1..Len(entries)} = AllocatedSet

\* A second call of allocated_entries has yielded the entries 0, 2 and 15 of
\* the bitmap 05 80, as the first call did.
C22_Witness ==
    /\ decoder = "Bitmap"
    /\ pc = "exhausted"
    /\ binary_stream = <<5, 128>>
    /\ result.val.yielded = << <<0, 2, 15>>, <<0, 2, 15>> >>

\* get_next_empty has skipped two full bytes and found entry 18.
BitmapNextEmptySkipsFullBytes ==
    (decoder = "Bitmap" /\ pc = "get_next_empty")
    => /\ binary_stream = <<255, 255, 251>> => result.val = Some(18)
       /\ AllocatedSet = 0..(8 * Len(binary_stream) - 1) => result.val = None

\* The GUID held by the 16 bytes [16i, 16i+16) of the buffer.
GuidAt(i) == UUID_bytes_le(SubSeq(binary_stream, 16 * i + 1, 16 * i + 16)).val

\* C23: decoding as ObjectID a buffer of k complete 16-byte GUIDs, k from 0
\* to 4, returns a record of four fields, the first k holding in order the
\* GUIDs of bytes [16i, 16i+16) and the other 4 - k being None.
C23_ObjectIDMissingIsNone ==
    \A k \in 0..4 :
        (decoder = "ObjectID" /\ pc # "start" /\ Len(binary_stream) = 16 * k)
        => /\ pc = "returned"
           /\ DOMAIN result.val
                 = {"object_id", "birth_vol_id", "birth_object_id", "birth_domain_id"}
           /\ LET ids == <<result.val.object_id, result.val.birth_vol_id,
                           result.val.birth_object_id, result.val.birth_domain_id>>
              IN  \A i \in 0..3 : ids[i + 1] = IF i < k THEN Some(GuidAt(i)) ELSE None

\* Two GUIDs, the second of all zeros, have decoded to two ids and two None.
C23_Witness ==
    /\ decoder = "ObjectID"
    /\ pc = "returned"
    /\ binary_stream = Counting(1, 16) \o Zeros(16)
    /\ result.val.object_id = Some(<<4, 3, 2, 1, 6, 5, 8, 7, 9, 10, 11, 12, 13, 14, 15, 16>>)
    /\ result.val.birth_vol_id = Some(Zeros(16))
    /\ result.val.birth_object_id = None
    /\ result.val.birth_domain_id = None

\* C24: a buffer decoded twice by the same decoder gives two records that
\* compare equal by value.
C24_DecodedTwiceEqual ==
    pc = "compared" => result.val.equal = Ok(TRUE)

\* What the code does: the second decode returns the same fields as the
\* first, but == raises NameError for the generated classes and is False,
\* being identity, for the header classes; only get_attr_info's tuples
\* compare equal.
SameFieldsButNoEquality ==
    pc = "compared"
    => /\ result.val.second = Ok(result.val.first)
       /\ result.val.equal =
              IF decoder \in GeneratedClasses THEN Raise("NameError")
              ELSE IF decoder = "get_attr_info" THEN Ok(TRUE)
              ELSE Ok(FALSE)

\* C25: len of a decoded content record returns its encoded size in bytes
\* and never fails: 8 + 4*n for a SID of n sub-authorities, 66 + 2 * (UTF-16
\* code units of the name) for a FileName, whose name is the buffer's rest.
C25_LenIsEncodedSize ==
    pc = "len"
    => result = Ok(IF decoder = "SID" THEN 8 + 4 * binary_stream[2]
                   ELSE 66 + (Len(binary_stream) - 66))

\* What the code does: both functions read a name that is not defined.
LenRaisesNameError ==
    pc = "len" => result = Raise("NameError")

\* The rl_offset field of a non-resident header.
RlOffsetOf(b) == FromBytesLE(SubSeq(b, 33, 34))

\* C26: a NonResidentAttrHeader decode runs the DataRuns decoder, on
\* buffer[rl_offset:], iff load_dataruns is true; with load_dataruns false
\* the header returned has data_runs None, the run list has not been read
\* (a broken one does not fail the decode), and with load_dataruns true the
\* other fields are the ones returned with load_dataruns false.
C26_RunListLoadedOnRequest ==
    \A t \in Callers :
        LET f == th[t]
            fields == NonResidentHeaderFields(f.arg)
        IN  (f.via = "NonResidentAttrHeader" /\ f.pc # "idle")
            => /\ f.nw_obj # None <=> (f.load_dataruns /\ fields.exc = "none")
               /\ f.nw_obj # None => f.binary_view = SliceFrom(f.arg, RlOffsetOf(f.arg))
               /\ ~f.load_dataruns
                    => /\ f.pc = (IF fields.exc = "none" THEN "returned" ELSE "raised")
                       /\ f.offset = 0
                       /\ f.pc = "returned" => f.ret[1].obj = fields.val
               /\ (f.load_dataruns /\ f.pc = "returned")
                    => /\ f.ret[1].obj.data_runs # None
                       /\ [f.ret[1].obj EXCEPT !.data_runs = None] = fields.val

\* A header with a name, so with its run list at offset 66, has been decoded
\* with its run list.
C26_Witness ==
    \E t \in Callers :
        /\ th[t].via = "NonResidentAttrHeader"
        /\ th[t].pc = "returned"
        /\ th[t].load_dataruns
        /\ th[t].arg = MkNonResident(128, <<65, 0>>, <<17, 4, 100, 1, 5, 17, 2, 10, 0>>)
        /\ th[t].binary_view = <<17, 4, 100, 1, 5, 17, 2, 10, 0>>
        /\ th[t].ret[1].obj.data_runs # None

\* A header whose run list has no terminator decodes without its run list
\* and fails with it.
BrokenRunListOnlyFailsWhenLoaded ==
    \A t \in Callers :
        (th[t].via = "NonResidentAttrHeader" /\ th[t].arg = MkNonResident(128, <<>>, <<1>>))
        => /\ ~th[t].load_dataruns => th[t].pc = "returned"
           /\ th[t].load_dataruns => th[t].pc \in {"loop", "raised"}

\* The name_len and name_offset fields of the header the buffer starts with.
NameLenField == binary_stream[10]
NameOffsetField == FromBytesLE(SubSeq(binary_stream, 11, 12))

\* C27: the header a header decoder returns has the name None iff name_len
\* = 0, and for name_len > 0 the UTF-16LE decoding of
\* buffer[name_offset : name_offset + 2*name_len], name_offset counted from
\* the start of the header, whether the attribute is resident or not.
C27_HeaderNameAtNameOffset ==
    (decoder \in {"BaseAttributeHeader", "ResidentAttrHeader", "NonResidentAttrHeader"}
        /\ pc = "returned")
    => /\ (result.val.attr_name = None) <=> (NameLenField = 0)
       /\ NameLenField > 0
            => Ok(result.val.attr_name[1])
                 = DecodeUtf16le(SubSeq(binary_stream, NameOffsetField + 1,
                                        Min(NameOffsetField + 2 * NameLenField,
                                            Len(binary_stream))))

\* A non-resident header whose name lies after its run list, at offset 68,
\* has decoded to the name AB.
C27_Witness ==
    /\ decoder = "NonResidentAttrHeader"
    /\ pc = "returned"
    /\ Len(binary_stream) >= 12
    /\ NameOffsetField = 68
    /\ result.val.attr_name = Some(<<65, 66>>)

\* The two offset/length pairs of the link the reparse point holds.
TargetOffset == FromBytesLE(SubSeq(binary_stream, 9, 10))
TargetLen == FromBytesLE(SubSeq(binary_stream, 11, 12))
PrintOffset == FromBytesLE(SubSeq(binary_stream, 13, 14))
PrintLen == FromBytesLE(SubSeq(binary_stream, 15, 16))

\* A ReparsePoint decode has returned a SymbolicLink or a JunctionOrMount.
LinkReturned ==
    /\ decoder = "ReparsePoint"
    /\ pc = "returned"
    /\ HasFlag(TagFlags, 8)
    /\ TagType \in {3, 12}

\* The two names of the returned link are the strings of the buffer that
\* start `base` bytes plus their declared offsets into it.
NamesReadFrom(base) ==
    /\ Ok(result.val.data.target_name)
          = DecodeUtf16le(Slice(binary_stream, base + TargetOffset,
                                base + TargetOffset + TargetLen))
    /\ Ok(result.val.data.print_name)
          = DecodeUtf16le(Slice(binary_stream, base + PrintOffset,
                                base + PrintOffset + PrintLen))

RECURSIVE RunHeadersFrom(_, _, _)
RunHeadersFrom(buf, pos, upto) ==
    IF pos >= upto \/ pos >= Len(buf) THEN <<>>
    ELSE <<pos>> \o RunHeadersFrom(buf, pos + 1 + (buf[pos + 1] % 16) + (buf[pos + 1] \div 16), upto)

\* The run headers the decode of caller 1 has passed.
PassedHeaders == RunHeadersFrom(th[1].binary_view, 0, th[1].offset)

\* The runs the decode of caller 1 has appended: the tail of the list its
\* object references.
AppendedRuns ==
    LET all == heap[th[1].nw_obj[1].data_runs]
    IN  SubSeq(all, Len(all) - Len(PassedHeaders) + 1, Len(all))

\* The signed relative offset the run with its header at position p declares.
RelativeOffsetAt(buf, p) ==
    LET ll == buf[p + 1] % 16
        lo == buf[p + 1] \div 16
    IN  FromBytesLESigned(Slice(buf, p + 1 + ll, p + 1 + ll + lo))

\* The absolute offset of the last non-sparse run among the first j - 1 runs
\* of rs, 0 when there is none.
LastAbsoluteBefore(rs, j) ==
    LET ks == {k \in 1..(j - 1) : rs[k][2] # None}
    IN  IF ks = {} THEN 0
        ELSE rs[CHOOSE k \in ks : \A m \in ks : m <= k][2][1]

\* C29: a sparse run (offset-field length 0) gets offset None and leaves the
\* accumulator of the previous offset as it was: the absolute offset of a
\* non-sparse run is the absolute offset of the last non-sparse run before
\* it (0 if none) plus its own signed relative offset, however many sparse
\* runs lie in between.
C29_SparseRunsKeepAccumulator ==
    (th[1].pc \in {"loop", "returned", "raised"} /\ th[1].nw_obj # None)
    => LET buf == th[1].binary_view
           hs == PassedHeaders
           rs == AppendedRuns
       IN  /\ Len(heap[th[1].nw_obj[1].data_runs]) >= Len(hs)
           /\ \A j \in 1..Len(hs) :
                 IF buf[hs[j] + 1] \div 16 = 0
                 THEN rs[j][2] = None
                 ELSE rs[j][2] = Some(LastAbsoluteBefore(rs, j) + RelativeOffsetAt(buf, hs[j]))
           /\ th[1].previous_dr_offset = LastAbsoluteBefore(rs, Len(hs) + 1)

\* A second decode has returned a run at 100, two sparse runs, a run one
\* cluster before 100 and a last sparse run.
C29_Witness ==
    /\ th[1].pc = "returned"
    /\ th[1].nw_obj # None
    /\ ncalls = 2
    /\ th[1].binary_view = <<17, 4, 100, 1, 5, 1, 6, 17, 2, 255, 1, 9, 0>>
    /\ Len(heap[th[1].nw_obj[1].data_runs]) > 5
    /\ AppendedRuns = << <<4, Some(100)>>, <<5, None>>, <<6, None>>, <<2, Some(99)>>, <<9, None>> >>
    /\ th[1].previous_dr_offset = 99

\* A pass of the loop of caller 1 that goes on to another pass.
LoopPass == th[1].pc = "loop" /\ th'[1].pc = "loop"

\* C30: the DataRuns decode ends on every finite buffer: each pass of the
\* loop moves the read offset on by at least 1 byte, a decode that returns
\* does so at a 0 header byte, one that fails in the loop does so with the
\* offset at or past the end of the buffer, and every decode under way comes
\* to one of the two.
C30_DataRunsDecodeTerminates ==
    /\ [][LoopPass => th'[1].offset >= th[1].offset + 1]_vars
    /\ []((th[1].pc = "returned" /\ th[1].nw_obj # None)
            => /\ th[1].offset < Len(th[1].binary_view)
               /\ th[1].binary_view[th[1].offset + 1] = 0)
    /\ []((th[1].pc = "raised" /\ th[1].nw_obj # None)
            => /\ th[1].error = "IndexError"
               /\ th[1].offset >= Len(th[1].binary_view))
    /\ (th[1].pc = "loop") ~> (th[1].pc \in {"returned", "raised"})

\* The decode of a run list of two runs and no terminator has failed with
\* the offset at the end of the buffer, after two passes.
C30_Witness ==
    /\ th[1].pc = "raised"
    /\ th[1].nw_obj # None
    /\ th[1].binary_view = <<17, 4, 100, 1, 5>>
    /\ th[1].offset = 5
    /\ th[1].error = "IndexError"
    /\ Len(PassedHeaders) = 2

====
